---- MODULE Spec2Model ----
(***************************************************************************)
(* Model of the HTTP request / retry / rate-limit core of the Unipile      *)
(* connector: the per-account RateLimiter state machine and the            *)
(* HttpClient.request() retry loop (packages/core/src/http).               *)
(*                                                                         *)
(* Time is the value of Date.now() in milliseconds.  JavaScript runs each  *)
(* stretch of code between two awaits atomically, so every action below is *)
(* one such stretch.                                                       *)
(***************************************************************************)
EXTENDS Integers, Sequences, FiniteSets, TLC

VARIABLES
  now,            \* Date.now(), in ms
  baseDelayMs,    \* RateLimiter.baseDelayMs   (config.retryBaseDelay)
  maxDelayMs,     \* RateLimiter.maxDelayMs    (config.retryMaxDelay)
  enableRetry,    \* HttpClient.enableRetry
  maxRetries,     \* HttpClient.maxRetries
  accountStates,  \* RateLimiter.accountStates : Map<string, AccountRateLimitState>
  call,           \* the request() calls, one record per call
  lastOp,         \* the direct call on the rate limiter made by the last step, with its result
  applied         \* per account, the recordRateLimitError calls made on it since its last
                  \* recordSuccess, reset or resetAll: how many, and how many without resetAt;
                  \* and the latest reset time a 429 received since its last reset or
                  \* resetAll carried

vars ==
  <<now, baseDelayMs, maxDelayMs, enableRetry, maxRetries, accountStates, call, lastOp, applied>>

----------------------------------------------------------------------------
(* Bounds of the model *)

MaxTicks == 3        \* the clock advances at most this many times (rate limiter alone)
MaxCallTicks == 3    \* the clock advances at most this many times (request() calls)
MaxErrors == 5       \* cap on consecutiveErrors reached through direct calls
MaxPairTicks == 1    \* the clock advances at most this many times (two accounts)
MaxPairErrors == 2   \* cap on consecutiveErrors per account (two accounts)
MaxConcTicks == 2    \* the clock advances at most this many times (concurrent calls)

\* the amounts by which the clock advances in one step
TickSteps == {1000}

\* reset times handed to recordRateLimitError, relative to now
ResetOffsets == {-1000, 0, 1000, 2000}

\* (baseDelayMs, maxDelayMs) pairs a RateLimiter is constructed with; the
\* constructor checks nothing, so a pair with base > max is accepted
DelayConfigs == {<<1000, 10000>>, <<2000, 3000>>, <<2000, 1000>>}

\* (enableRetry, maxRetries) pairs a client is constructed with
RetryConfigs == {<<TRUE, 0>>, <<TRUE, 1>>, <<TRUE, 2>>, <<TRUE, 3>>, <<FALSE, 3>>}

Accounts == {"global", "acc-1"}

\* the accounts used when the rate limiter is exercised on its own
LimiterAccounts == {"acc-1"}

\* the accounts used when one rate limiter tracks several accounts
PairAccounts == {"acc-1", "acc-2"}
Calls == {"c1", "c2"}

\* null / undefined of a Date-valued or number-valued field
Null == -1

\* a call of a RateLimiter method: its name, its accountId, its resetAt
\* argument and the value it returned (Null where there is none)
Op(name, a, arg, ret) == [op |-> name, acc |-> a, arg |-> arg, ret |-> ret]

\* the last step was no direct call on the rate limiter
NoOp == Op("none", "global", Null, Null)

\* every account identifier in use
AllAccounts == Accounts \cup PairAccounts

\* the record of the calls made on the rate limiter: none so far
NoneApplied == [a \in AllAccounts |-> [errors |-> 0, doublings |-> 0, deadline |-> Null]]

\* recordRateLimitError(a, r) has been called
AppliedError(ap, a, r) ==
  [ap EXCEPT ![a] = [@ EXCEPT !.errors = @ + 1,
                              !.doublings = IF r = Null THEN @ + 1 ELSE @]]

\* recordSuccess(a) has been called
AppliedClear(ap, a) == [ap EXCEPT ![a] = [@ EXCEPT !.errors = 0, !.doublings = 0]]

\* reset(a) has been called
AppliedReset(ap, a) == [ap EXCEPT ![a] = NoneApplied[a]]

\* request() has received a 429 for account a whose headers give the reset
\* time r, later than the present instant t
AppliedDeadline(ap, a, r, t) ==
  IF r # Null /\ r > t /\ r > ap[a].deadline
    THEN [ap EXCEPT ![a].deadline = r]
    ELSE ap

Min(a, b) == IF a < b THEN a ELSE b
Max(a, b) == IF a > b THEN a ELSE b

----------------------------------------------------------------------------
(* RateLimiter *)

\* a Map with no entries
EmptyMap == [a \in {} |-> 0]

\* the state getAccountState creates for an account it has not seen
FreshState ==
  [consecutiveErrors |-> 0,
   resetAt |-> Null,
   currentBackoffMs |-> baseDelayMs,
   lastRequestAt |-> Null]

\* getAccountState creating the new entry from an entry already tracked
GetAccountStateShared(states, a) ==
  IF a \in DOMAIN states
    THEN states
    ELSE [x \in DOMAIN states \cup {a} |->
            IF x # a THEN states[x]
            ELSE IF DOMAIN states = {} THEN FreshState
            ELSE states[CHOOSE b \in DOMAIN states : TRUE]]

\* getAccountState: the map after the lookup (the entry is created lazily)
GetAccountState(states, a) ==
  IF a \in DOMAIN states
    THEN states
    ELSE [x \in DOMAIN states \cup {a} |-> IF x = a THEN FreshState ELSE states[x]]

\* shouldWait, first branch: the stored reset time is still in the future
ResetPending(s, t) == s.resetAt # Null /\ s.resetAt - t > 0

\* shouldWait, second branch: remaining exponential backoff
BackoffRemaining(s, t) ==
  IF s.consecutiveErrors > 0 /\ s.lastRequestAt # Null
       /\ s.currentBackoffMs - (t - s.lastRequestAt) > 0
    THEN s.currentBackoffMs - (t - s.lastRequestAt)
    ELSE 0

\* shouldWait returning the larger of the two waits
ShouldWaitLarger(states, a, t) ==
  LET s == GetAccountState(states, a)[a]
  IN Max(IF ResetPending(s, t) THEN s.resetAt - t ELSE 0, BackoffRemaining(s, t))

\* shouldWait: the value returned
ShouldWaitRet(states, a, t) ==
  LET s == GetAccountState(states, a)[a]
  IN IF ResetPending(s, t) THEN s.resetAt - t ELSE BackoffRemaining(s, t)

\* shouldWait that never clears the reset time
ShouldWaitKeepReset(states, a, t) == GetAccountState(states, a)

\* shouldWait stamping lastRequestAt as it checks
ShouldWaitStamping(states, a, t) ==
  [GetAccountState(states, a) EXCEPT ![a].lastRequestAt = t]

\* shouldWait: the map afterwards (a passed reset time is cleared)
ShouldWaitPost(states, a, t) ==
  LET m == GetAccountState(states, a)
      s == m[a]
  IN IF s.resetAt # Null /\ ~(s.resetAt - t > 0)
       THEN [m EXCEPT ![a].resetAt = Null]
       ELSE m

\* recordSuccess that leaves the stored reset time in place
RecordSuccessKeepReset(states, a, t) ==
  LET m == GetAccountState(states, a)
  IN [m EXCEPT ![a] = [consecutiveErrors |-> 0,
                       currentBackoffMs |-> baseDelayMs,
                       resetAt |-> m[a].resetAt,
                       lastRequestAt |-> t]]

\* recordSuccess that only stamps lastRequestAt
RecordSuccessStampOnly(states, a, t) ==
  [GetAccountState(states, a) EXCEPT ![a].lastRequestAt = t]

\* recordSuccess
RecordSuccessPost(states, a, t) ==
  LET m == GetAccountState(states, a)
  IN [m EXCEPT ![a] = [consecutiveErrors |-> 0,
                       currentBackoffMs |-> baseDelayMs,
                       resetAt |-> Null,
                       lastRequestAt |-> t]]

\* doubling without the cap
NextBackoffUncapped(b) == b * 2

\* the doubling of recordRateLimitError's else branch
NextBackoff(b) == Min(b * 2, maxDelayMs)

\* recordRateLimitError doubling the backoff also when a reset time is given
RecordRateLimitErrorDoubling(states, a, r, t) ==
  LET m == GetAccountState(states, a)
      s == m[a]
  IN [m EXCEPT ![a] =
        [consecutiveErrors |-> s.consecutiveErrors + 1,
         lastRequestAt |-> t,
         resetAt |-> IF r # Null THEN r ELSE s.resetAt,
         currentBackoffMs |-> NextBackoff(s.currentBackoffMs)]]

\* recordRateLimitError writing back a count read before another call's
\* increment (a lost update)
RecordRateLimitErrorLost(states, a, r, t) ==
  LET m == GetAccountState(states, a)
      s == m[a]
  IN [m EXCEPT ![a] =
        [consecutiveErrors |-> 1,
         lastRequestAt |-> t,
         resetAt |-> IF r # Null THEN r ELSE s.resetAt,
         currentBackoffMs |-> IF r # Null THEN s.currentBackoffMs
                                          ELSE NextBackoff(s.currentBackoffMs)]]

\* recordRateLimitError that never advances the backoff
RecordRateLimitErrorFlat(states, a, r, t) ==
  LET m == GetAccountState(states, a)
      s == m[a]
  IN [m EXCEPT ![a] =
        [consecutiveErrors |-> s.consecutiveErrors + 1,
         lastRequestAt |-> t,
         resetAt |-> IF r # Null THEN r ELSE s.resetAt,
         currentBackoffMs |-> s.currentBackoffMs]]

\* recordRateLimitError; r = Null stands for an omitted resetAt
RecordRateLimitErrorPost(states, a, r, t) ==
  LET m == GetAccountState(states, a)
      s == m[a]
  IN [m EXCEPT ![a] =
        [consecutiveErrors |-> s.consecutiveErrors + 1,
         lastRequestAt |-> t,
         resetAt |-> IF r # Null THEN r ELSE s.resetAt,
         currentBackoffMs |-> IF r # Null THEN s.currentBackoffMs
                                          ELSE NextBackoff(s.currentBackoffMs)]]

\* reset discarding every account
ResetPostEverything(states, a) == EmptyMap

\* reset
ResetPost(states, a) == [x \in DOMAIN states \ {a} |-> states[x]]

\* resetAll
ResetAllPost(states) == EmptyMap

\* getCurrentBackoff / getConsecutiveErrors: the value returned
GetCurrentBackoffRet(states, a) == GetAccountState(states, a)[a].currentBackoffMs
GetConsecutiveErrorsRet(states, a) == GetAccountState(states, a)[a].consecutiveErrors

----------------------------------------------------------------------------
(* Errors (packages/core/src/errors) *)

\* a typed error: an instance of UnipileError or of one of its subclasses;
\* statusCode, retryAttempt and resetAt are 0 / 0 / Null when the context
\* does not carry them; url tells which URL the context carries ("none",
\* the "request" URL or the "response" URL), method whether it carries the
\* request method
TypedError(cat, retryable, status, att, r) ==
  [category |-> cat, isRetryable |-> retryable, statusCode |-> status,
   retryAttempt |-> att, resetAt |-> r, url |-> "none", method |-> FALSE,
   typed |-> TRUE]

\* the context { url, method, ... } executeRequest gives the errors it creates
RequestContext(e) == [e EXCEPT !.url = "request", !.method = TRUE]

\* the context { url: response.url, method, ... } of handleResponse
ResponseContext(e) == [e EXCEPT !.url = "response", !.method = TRUE]

TimeoutError(att) == TypedError("timeout", TRUE, 0, att, Null)
ConnectionError(att) == TypedError("connection", TRUE, 0, att, Null)
RateLimitError(status, att, r) == TypedError("rate_limit", TRUE, status, att, r)
AuthError(status, att) == TypedError("auth", FALSE, status, att, Null)
NotFoundError(status, att) == TypedError("not_found", FALSE, status, att, Null)
ValidationError(status, att) == TypedError("validation", FALSE, status, att, Null)
UnknownError(retryable, status, att) == TypedError("unknown", retryable, status, att, Null)

\* no error (lastError undefined, nothing thrown)
NoError == [category |-> "none", isRetryable |-> FALSE, statusCode |-> 0,
            retryAttempt |-> 0, resetAt |-> Null, url |-> "none", method |-> FALSE,
            typed |-> FALSE]

\* an exception that is no UnipileError (the TypeError of new URL(...))
RawError == [NoError EXCEPT !.category = "raw"]

\* the time until the reset time, negative once it has passed
GetRetryAfterMsSigned(e, t) == IF e.resetAt = Null THEN 0 ELSE e.resetAt - t

\* RateLimitError.getRetryAfterMs
GetRetryAfterMs(e, t) ==
  IF e.resetAt = Null THEN 0 ELSE Max(0, e.resetAt - t)

----------------------------------------------------------------------------
(* Response headers and RateLimiter.parseRateLimitHeaders *)

\* Integers as wide as the header values and the instants made from them:
\* hi * 10^5 + lo with 0 <= lo < 10^5 (10000000000 and its multiples by 1000
\* are beyond the integers the model checker computes with)
WideBase == 10 ^ 5
Wide(hi, lo) == [hi |-> hi, lo |-> lo]
Widen(n) == Wide(n \div WideBase, n % WideBase)
Narrow(w) == w.hi * WideBase + w.lo
WideGreater(a, b) == a.hi > b.hi \/ (a.hi = b.hi /\ a.lo > b.lo)
WidePlus(a, b) == Wide(a.hi + b.hi + (a.lo + b.lo) \div WideBase, (a.lo + b.lo) % WideBase)
WideTimes1000(a) == Wide(a.hi * 1000 + (a.lo * 1000) \div WideBase, (a.lo * 1000) % WideBase)

\* undefined, where a wide instant is expected
NoInstant == Wide(0, -1)

\* a wide instant as a time of the model; Null for undefined
NarrowInstant(w) == IF w = NoInstant THEN Null ELSE Narrow(w)

\* a header value: absent, text that parseInt reads as the integer v, text
\* that only the Date constructor reads (as the instant v), or neither
Absent == [kind |-> "absent", v |-> Widen(0)]
IntText(v) == [kind |-> "int", v |-> Widen(v)]
WideText(w) == [kind |-> "int", v |-> w]
DateText(v) == [kind |-> "date", v |-> Widen(v)]
Junk == [kind |-> "junk", v |-> Widen(0)]

Hdrs(ra, rl) == [retryAfter |-> ra, rateLimitReset |-> rl]
NoHeaders == Hdrs(Absent, Absent)

\* x-ratelimit-reset values above this are already milliseconds: 10000000000
MsThreshold == Wide(WideBase, 0)

\* parseRateLimitHeaders trying x-ratelimit-reset before retry-after
ParseRateLimitHeadersResetFirst(h, t) ==
  IF h.rateLimitReset.kind = "int"
    THEN IF WideGreater(h.rateLimitReset.v, MsThreshold)
           THEN h.rateLimitReset.v
           ELSE WideTimes1000(h.rateLimitReset.v)
  ELSE IF h.retryAfter.kind = "int" THEN WidePlus(Widen(t), WideTimes1000(h.retryAfter.v))
  ELSE IF h.retryAfter.kind = "date" THEN h.retryAfter.v
  ELSE NoInstant

\* parseRateLimitHeaders at time t: the reset instant, NoInstant for undefined
ParseRateLimitHeaders(h, t) ==
  IF h.retryAfter.kind = "int" THEN WidePlus(Widen(t), WideTimes1000(h.retryAfter.v))
  ELSE IF h.retryAfter.kind = "date" THEN h.retryAfter.v
  ELSE IF h.rateLimitReset.kind = "int"
    THEN IF WideGreater(h.rateLimitReset.v, MsThreshold)
           THEN h.rateLimitReset.v
           ELSE WideTimes1000(h.rateLimitReset.v)
  ELSE NoInstant

----------------------------------------------------------------------------
(* HttpClient.executeRequest / handleResponse *)

\* what the transport (fetch) does with one invocation: it resolves with a
\* response, resolves with a response whose body is no JSON although its
\* content type says so, rejects with a value that is no UnipileError
\* ("abort", "network", "other" Error, "nonError" value), or rejects with a
\* UnipileError e
Response(status, h) ==
  [kind |-> "response", status |-> status, headers |-> h, err |-> NoError]
BadBody(status) ==
  [kind |-> "badBody", status |-> status, headers |-> NoHeaders, err |-> NoError]
Thrown(k) == [kind |-> k, status |-> 0, headers |-> NoHeaders, err |-> NoError]
ThrownTyped(e) == [kind |-> "typed", status |-> 0, headers |-> NoHeaders, err |-> e]

\* the result of one attempt: an envelope or an error
Envelope(status, att) == [status |-> status, servedOn |-> att]
NoResult == Envelope(0, 0)
Ok(env) == [ok |-> TRUE, env |-> env, err |-> NoError]
Fail(e) == [ok |-> FALSE, env |-> NoResult, err |-> e]

\* handleResponse
\* handleResponse testing status >= 400 before status >= 500
HandleResponseClientFirst(status, h, jsonOk, att, t) ==
  IF status = 429
    THEN Fail(ResponseContext(RateLimitError(status, att, NarrowInstant(ParseRateLimitHeaders(h, t)))))
  ELSE IF status = 401 \/ status = 403 THEN Fail(ResponseContext(AuthError(status, att)))
  ELSE IF status = 404 THEN Fail(ResponseContext(NotFoundError(status, att)))
  ELSE IF status = 400 \/ status = 422 THEN Fail(ResponseContext(ValidationError(status, att)))
  ELSE IF status >= 400 THEN Fail(ResponseContext(UnknownError(FALSE, status, att)))
  ELSE IF status >= 500 THEN Fail(ResponseContext(UnknownError(TRUE, status, att)))
  ELSE IF status = 204 \/ jsonOk THEN Ok(Envelope(status, att))
  ELSE Fail(RawError)

\* handleResponse; a body that is no JSON makes response.json() throw
\* (jsonOk = FALSE); safeParseJson swallows that for the error statuses
HandleResponse(status, h, jsonOk, att, t) ==
  IF status = 429
    THEN Fail(ResponseContext(RateLimitError(status, att, NarrowInstant(ParseRateLimitHeaders(h, t)))))
  ELSE IF status = 401 \/ status = 403 THEN Fail(ResponseContext(AuthError(status, att)))
  ELSE IF status = 404 THEN Fail(ResponseContext(NotFoundError(status, att)))
  ELSE IF status = 400 \/ status = 422 THEN Fail(ResponseContext(ValidationError(status, att)))
  ELSE IF status >= 500 THEN Fail(ResponseContext(UnknownError(TRUE, status, att)))
  ELSE IF status >= 400 THEN Fail(ResponseContext(UnknownError(FALSE, status, att)))
  ELSE IF status = 204 \/ jsonOk THEN Ok(Envelope(status, att))
  ELSE Fail(RawError)

\* executeRequest wrapping an unrecognized thrown value as not retryable
ExecuteRequestOtherFinal(o, att, t) ==
  LET r == IF o.kind \in {"response", "badBody"}
             THEN HandleResponse(o.status, o.headers, o.kind = "response", att, t)
             ELSE Fail(IF o.kind = "typed" THEN o.err ELSE RawError)
  IN IF r.ok \/ r.err.typed THEN r
     ELSE IF o.kind = "abort" THEN Fail(RequestContext(TimeoutError(att)))
     ELSE IF o.kind = "network" THEN Fail(RequestContext(ConnectionError(att)))
     ELSE Fail(RequestContext(UnknownError(FALSE, 0, att)))

\* executeRequest classifying a cancellation as a connection failure
ExecuteRequestAbortAsConnection(o, att, t) ==
  LET r == IF o.kind \in {"response", "badBody"}
             THEN HandleResponse(o.status, o.headers, o.kind = "response", att, t)
             ELSE Fail(IF o.kind = "typed" THEN o.err ELSE RawError)
  IN IF r.ok \/ r.err.typed THEN r
     ELSE IF o.kind \in {"abort", "network"} THEN Fail(RequestContext(ConnectionError(att)))
     ELSE Fail(RequestContext(UnknownError(TRUE, 0, att)))

\* executeRequest wrapping every thrown value, typed ones included
ExecuteRequestWrapAll(o, att, t) ==
  LET r == IF o.kind \in {"response", "badBody"}
             THEN HandleResponse(o.status, o.headers, o.kind = "response", att, t)
             ELSE Fail(RawError)
  IN IF r.ok \/ r.err.typed THEN r
     ELSE IF o.kind = "abort" THEN Fail(RequestContext(TimeoutError(att)))
     ELSE IF o.kind = "network" THEN Fail(RequestContext(ConnectionError(att)))
     ELSE Fail(RequestContext(UnknownError(TRUE, 0, att)))

\* executeRequest from its try block on: the transport's outcome o on attempt
\* att at time t
ExecuteRequest(o, att, t) ==
  LET r == IF o.kind \in {"response", "badBody"}
             THEN HandleResponse(o.status, o.headers, o.kind = "response", att, t)
             ELSE Fail(IF o.kind = "typed" THEN o.err ELSE RawError)
  IN IF r.ok \/ r.err.typed THEN r
     ELSE IF o.kind = "abort" THEN Fail(RequestContext(TimeoutError(att)))
     ELSE IF o.kind = "network" THEN Fail(RequestContext(ConnectionError(att)))
     ELSE Fail(RequestContext(UnknownError(TRUE, 0, att)))

----------------------------------------------------------------------------
(* HttpClient.request *)

\* options.accountId: absent, or an account
NoAccountId == "undefined"
AccountOptions == {NoAccountId, "acc-1"}

\* every call charged to the one bucket 'global'
ResolveAccountGlobal(opt) == "global"

\* options.accountId ?? 'global'
ResolveAccount(opt) == IF opt = NoAccountId THEN "global" ELSE opt

\* maxAttempts computed without looking at enableRetry
MaxAttemptsIgnoringFlag == maxRetries

\* maxAttempts
MaxAttempts == IF enableRetry THEN maxRetries ELSE 1

\* the retry delay taken from the rate limiter's configuration
RetryDelayFromLimiter(att) == Min(baseDelayMs * 2 ^ (att - 1), maxDelayMs)

\* the delay before retrying a retryable error that is no rate limit
RetryDelay(att) == Min(1000 * 2 ^ (att - 1), 30000)

\* the error thrown when the loop ends with no error recorded
FallbackError == TypedError("unknown", FALSE, 0, 0, Null)

\* a call that has not started
IdleCall ==
  [pc |-> "idle", accountId |-> "global", attempt |-> 0, wakeAt |-> 0,
   invocations |-> 0, sleeps |-> 0, sleepMs |-> 0,
   lastError |-> NoError, thrown |-> NoError, result |-> NoResult]

\* await this.sleep(ms)
Sleep(c, where, ms, t) ==
  [c EXCEPT !.pc = where, !.wakeAt = t + ms, !.sleeps = @ + 1, !.sleepMs = ms]

\* throw e to the caller of request()
Throw(c, e) == [c EXCEPT !.pc = "thrown", !.thrown = e]

\* a loop head without the test attempt <= maxAttempts
LoopHeadUnbounded(c, att) ==
  [c EXCEPT !.pc = "inflight", !.attempt = att, !.invocations = @ + 1]

\* the head of the for loop with attempt = att: the transport is invoked, or
\* the loop is left and the statement after it throws
LoopHead(c, att) ==
  IF att <= MaxAttempts
    THEN [c EXCEPT !.pc = "inflight", !.attempt = att, !.invocations = @ + 1]
    ELSE Throw([c EXCEPT !.attempt = att],
               IF c.lastError = NoError THEN FallbackError ELSE c.lastError)

\* the error carrying the wait itself instead of the time at which it ends
RateLimitActiveRelative(c, waitTime, t) == Throw(c, RateLimitError(0, 0, waitTime))

\* the rate limit is active and retry is disabled: the error thrown before
\* any attempt, carrying the time at which the wait ends
RateLimitActive(c, waitTime, t) == Throw(c, RateLimitError(0, 0, t + waitTime))

\* request() up to its first await
Request(p, opt) ==
  LET a == ResolveAccount(opt)
      c == [call[p] EXCEPT !.accountId = a]
      waitTime == ShouldWaitRet(accountStates, a, now)
  IN /\ call[p].pc = "idle"
     /\ accountStates' = ShouldWaitPost(accountStates, a, now)
     /\ call' = [call EXCEPT ![p] =
          IF waitTime > 0
            THEN IF enableRetry
                   THEN Sleep(c, "preWait", waitTime, now)
                   ELSE RateLimitActive(c, waitTime, now)
            ELSE LoopHead(c, 1)]
     /\ lastOp' = NoOp
     /\ UNCHANGED <<now, baseDelayMs, maxDelayMs, enableRetry, maxRetries, applied>>

\* the wait before the first attempt ending in a second shouldWait check
WakePreWaitRecheck(p) ==
  LET c == call[p]
      waitTime == ShouldWaitRet(accountStates, c.accountId, now)
  IN /\ c.pc = "preWait"
     /\ now >= c.wakeAt
     /\ accountStates' = ShouldWaitPost(accountStates, c.accountId, now)
     /\ call' = [call EXCEPT ![p] =
          IF waitTime > 0 THEN Sleep(c, "preWait", waitTime, now) ELSE LoopHead(c, 1)]
     /\ lastOp' = NoOp
     /\ UNCHANGED <<now, baseDelayMs, maxDelayMs, enableRetry, maxRetries, applied>>

\* the wait before the first attempt is over
WakePreWait(p) ==
  /\ call[p].pc = "preWait"
  /\ now >= call[p].wakeAt
  /\ call' = [call EXCEPT ![p] = LoopHead(call[p], 1)]
  /\ lastOp' = NoOp
  /\ UNCHANGED <<now, baseDelayMs, maxDelayMs, enableRetry, maxRetries, accountStates, applied>>

\* rethrowing only what is not retryable, also on the last attempt
ShouldThrowNonRetryableOnly(c, e) == ~e.isRetryable

\* rethrowing only on the last attempt, whatever the error's retryable flag
ShouldThrowOnLastOnly(c, e) == c.attempt >= MaxAttempts

\* rethrowing a timeout on whichever attempt it occurs
ShouldThrowTimeouts(c, e) ==
  ~e.isRetryable \/ e.category = "timeout" \/ c.attempt >= MaxAttempts

\* rethrowing a retryable error one attempt early
ShouldThrowEarly(c, e) == ~e.isRetryable \/ c.attempt + 1 >= MaxAttempts

\* the catch block of request(): a typed error e of attempt c.attempt is
\* rethrown when it is not retryable or the attempt was the last one
ShouldThrow(c, e) == ~e.isRetryable \/ c.attempt >= MaxAttempts

\* the catch block recording a rate_limit error before deciding to rethrow
CatchStatesRecordFirst(c, e, states, t) ==
  IF e.typed /\ e.category = "rate_limit"
    THEN RecordRateLimitErrorPost(states, c.accountId, e.resetAt, t)
    ELSE states

\* the catch block recording every retried error in the rate limiter
CatchStatesAnyRetried(c, e, states, t) ==
  IF e.typed /\ ~ShouldThrow(c, e)
    THEN GetAccountState(RecordRateLimitErrorPost(states, c.accountId, e.resetAt, t),
                         c.accountId)
    ELSE states

\* the catch block of request() for the error e of attempt c.attempt: the
\* rate-limiter map afterwards
CatchStates(c, e, states, t) ==
  IF e.typed /\ ~ShouldThrow(c, e) /\ e.category = "rate_limit"
    THEN GetAccountState(RecordRateLimitErrorPost(states, c.accountId, e.resetAt, t),
                         c.accountId)
    ELSE states

\* the catch block reading the backoff before the error is recorded
CatchCallStale(c, e, states, t) ==
  LET c1 == [c EXCEPT !.lastError = e]
  IN IF ~e.typed THEN Throw(c1, e)
     ELSE IF ShouldThrow(c, e) THEN Throw(c1, e)
     ELSE IF e.category = "rate_limit"
       THEN IF GetRetryAfterMs(e, t) > 0
              THEN Sleep(c1, "backoff", GetRetryAfterMs(e, t), t)
              ELSE Sleep(c1, "backoff", GetCurrentBackoffRet(states, c.accountId), t)
     ELSE Sleep(c1, "backoff", RetryDelay(c.attempt), t)

\* the catch block sleeping the time left until the error's reset time
\* whenever the error has one, be it zero
CatchCallZero(c, e, states, t) ==
  LET c1 == [c EXCEPT !.lastError = e]
  IN IF ~e.typed THEN Throw(c1, e)
     ELSE IF ShouldThrow(c, e) THEN Throw(c1, e)
     ELSE IF e.category = "rate_limit"
       THEN IF e.resetAt # Null
              THEN Sleep(c1, "backoff", GetRetryAfterMs(e, t), t)
              ELSE Sleep(c1, "backoff",
                         GetCurrentBackoffRet(CatchStates(c, e, states, t), c.accountId), t)
     ELSE Sleep(c1, "backoff", RetryDelay(c.attempt), t)

\* the catch block of request(): the call afterwards
CatchCall(c, e, states, t) ==
  LET c1 == [c EXCEPT !.lastError = e]
  IN IF ~e.typed THEN Throw(c1, e)
     ELSE IF ShouldThrow(c, e) THEN Throw(c1, e)
     ELSE IF e.category = "rate_limit"
       THEN IF GetRetryAfterMs(e, t) > 0
              THEN Sleep(c1, "backoff", GetRetryAfterMs(e, t), t)
              ELSE Sleep(c1, "backoff",
                         GetCurrentBackoffRet(CatchStates(c, e, states, t), c.accountId), t)
     ELSE Sleep(c1, "backoff", RetryDelay(c.attempt), t)

\* the transport settles the attempt in flight with outcome o
Respond(p, o) ==
  LET c == call[p]
      r == ExecuteRequest(o, c.attempt, now)
  IN /\ c.pc = "inflight"
     /\ IF r.ok
          THEN /\ accountStates' = RecordSuccessPost(accountStates, c.accountId, now)
               /\ call' = [call EXCEPT ![p] = [c EXCEPT !.pc = "returned", !.result = r.env]]
          ELSE /\ accountStates' = CatchStates(c, r.err, accountStates, now)
               /\ call' = [call EXCEPT ![p] = CatchCall(c, r.err, accountStates, now)]
     /\ applied' =
          IF r.ok THEN AppliedClear(applied, c.accountId)
          ELSE LET ap == IF r.err.statusCode = 429
                           THEN AppliedDeadline(applied, c.accountId, r.err.resetAt, now)
                           ELSE applied
               IN IF CatchStates(c, r.err, accountStates, now) # accountStates
                    THEN AppliedError(ap, c.accountId, r.err.resetAt)
                    ELSE ap
     /\ lastOp' = NoOp
     /\ UNCHANGED <<now, baseDelayMs, maxDelayMs, enableRetry, maxRetries>>

\* new URL(path, baseUrl) throws in buildUrl, which executeRequest calls
\* before its try block: the transport is not invoked, and the catch block of
\* request() rethrows the TypeError as it is.  Path and base URL are the same
\* on every attempt, so this happens on the first attempt or never.
BuildUrlFails(p) ==
  LET c == call[p]
  IN /\ c.pc = "inflight"
     /\ c.attempt = 1
     /\ call' = [call EXCEPT ![p] =
          CatchCall([c EXCEPT !.invocations = @ - 1], RawError, accountStates, now)]
     /\ lastOp' = NoOp
     /\ UNCHANGED <<now, baseDelayMs, maxDelayMs, enableRetry, maxRetries, accountStates, applied>>

\* a wait between two attempts that ends only when no other call is waiting
WakeBackoffExclusive(p) ==
  /\ call[p].pc = "backoff"
  /\ now >= call[p].wakeAt
  /\ \A q \in Calls \ {p} : call[q].pc \notin {"preWait", "backoff"}
  /\ call' = [call EXCEPT ![p] = LoopHead(call[p], call[p].attempt + 1)]
  /\ lastOp' = NoOp
  /\ UNCHANGED <<now, baseDelayMs, maxDelayMs, enableRetry, maxRetries, accountStates, applied>>

\* the wait between two attempts is over: attempt++ and the loop head
WakeBackoff(p) ==
  /\ call[p].pc = "backoff"
  /\ now >= call[p].wakeAt
  /\ call' = [call EXCEPT ![p] = LoopHead(call[p], call[p].attempt + 1)]
  /\ lastOp' = NoOp
  /\ UNCHANGED <<now, baseDelayMs, maxDelayMs, enableRetry, maxRetries, accountStates, applied>>

----------------------------------------------------------------------------
(* Direct use of the rate limiter (HttpClient.getRateLimiter()) *)

ShouldWait(a) ==
  /\ accountStates' = ShouldWaitPost(accountStates, a, now)
  /\ lastOp' = Op("shouldWait", a, Null, ShouldWaitRet(accountStates, a, now))
  /\ applied' = applied
  /\ UNCHANGED <<now, baseDelayMs, maxDelayMs, enableRetry, maxRetries, call>>

RecordSuccess(a) ==
  /\ accountStates' = RecordSuccessPost(accountStates, a, now)
  /\ lastOp' = Op("recordSuccess", a, Null, Null)
  /\ applied' = AppliedClear(applied, a)
  /\ UNCHANGED <<now, baseDelayMs, maxDelayMs, enableRetry, maxRetries, call>>

RecordRateLimitError(a, r) ==
  /\ GetConsecutiveErrorsRet(accountStates, a) < MaxErrors
  /\ accountStates' = RecordRateLimitErrorPost(accountStates, a, r, now)
  /\ lastOp' = Op("recordRateLimitError", a, r, Null)
  /\ applied' = AppliedError(applied, a, r)
  /\ UNCHANGED <<now, baseDelayMs, maxDelayMs, enableRetry, maxRetries, call>>

Reset(a) ==
  /\ accountStates' = ResetPost(accountStates, a)
  /\ lastOp' = Op("reset", a, Null, Null)
  /\ applied' = AppliedReset(applied, a)
  /\ UNCHANGED <<now, baseDelayMs, maxDelayMs, enableRetry, maxRetries, call>>

ResetAll ==
  /\ accountStates' = ResetAllPost(accountStates)
  /\ lastOp' = Op("resetAll", "global", Null, Null)
  /\ applied' = NoneApplied
  /\ UNCHANGED <<now, baseDelayMs, maxDelayMs, enableRetry, maxRetries, call>>

GetCurrentBackoff(a) ==
  /\ accountStates' = GetAccountState(accountStates, a)
  /\ lastOp' = Op("getCurrentBackoff", a, Null, GetCurrentBackoffRet(accountStates, a))
  /\ applied' = applied
  /\ UNCHANGED <<now, baseDelayMs, maxDelayMs, enableRetry, maxRetries, call>>

GetConsecutiveErrors(a) ==
  /\ accountStates' = GetAccountState(accountStates, a)
  /\ lastOp' = Op("getConsecutiveErrors", a, Null, GetConsecutiveErrorsRet(accountStates, a))
  /\ applied' = applied
  /\ UNCHANGED <<now, baseDelayMs, maxDelayMs, enableRetry, maxRetries, call>>

\* the clock advances, at most maxTicks times
Tick(maxTicks) ==
  /\ \E d \in TickSteps :
       /\ now + d <= (maxTicks + 1) * 1000
       /\ now' = now + d
  /\ lastOp' = NoOp
  /\ UNCHANGED <<baseDelayMs, maxDelayMs, enableRetry, maxRetries, accountStates, call, applied>>

----------------------------------------------------------------------------
(* The rate limiter on its own *)

InitLimiter ==
  /\ now = 1000
  /\ \E c \in DelayConfigs : baseDelayMs = c[1] /\ maxDelayMs = c[2]
  /\ enableRetry = TRUE
  /\ maxRetries = 5
  /\ accountStates = EmptyMap
  /\ call = [p \in Calls |-> IdleCall]
  /\ lastOp = NoOp
  /\ applied = NoneApplied

NextLimiter ==
  \/ \E a \in LimiterAccounts : ShouldWait(a)
  \/ \E a \in LimiterAccounts : RecordSuccess(a)
  \/ \E a \in LimiterAccounts : \E r \in {Null} \cup {now + o : o \in ResetOffsets} :
       RecordRateLimitError(a, r)
  \/ \E a \in LimiterAccounts : Reset(a)
  \/ ResetAll
  \/ \E a \in LimiterAccounts : GetCurrentBackoff(a)
  \/ \E a \in LimiterAccounts : GetConsecutiveErrors(a)
  \/ Tick(MaxTicks)

SpecLimiter == InitLimiter /\ [][NextLimiter]_vars

----------------------------------------------------------------------------
(* A RateLimitError in the hands of the application *)

\* new RateLimitError(message, { rateLimitResetAt: r }), or without a reset
\* time
NewRateLimitError(r) ==
  /\ lastOp' = Op("RateLimitError", "global", r, Null)
  /\ UNCHANGED <<now, baseDelayMs, maxDelayMs, enableRetry, maxRetries, accountStates, call,
                 applied>>

\* error.getRetryAfterMs() on the error constructed last
GetRetryAfterMsCall ==
  /\ lastOp.op \in {"RateLimitError", "getRetryAfterMs"}
  /\ lastOp' = Op("getRetryAfterMs", "global", lastOp.arg,
                  GetRetryAfterMs(RateLimitError(0, 0, lastOp.arg), now))
  /\ UNCHANGED <<now, baseDelayMs, maxDelayMs, enableRetry, maxRetries, accountStates, call,
                 applied>>

\* the clock advances while the application holds the error
Elapse ==
  /\ \E d \in TickSteps :
       /\ now + d <= (MaxTicks + 1) * 1000
       /\ now' = now + d
  /\ UNCHANGED <<baseDelayMs, maxDelayMs, enableRetry, maxRetries, accountStates, call,
                 lastOp, applied>>

NextErrors ==
  \/ \E r \in {Null} \cup {now + o : o \in ResetOffsets} : NewRateLimitError(r)
  \/ GetRetryAfterMsCall
  \/ Elapse

SpecErrors == InitLimiter /\ [][NextErrors]_vars

----------------------------------------------------------------------------
(* RateLimiter.parseRateLimitHeaders called on its own *)

\* the values a rate-limit header is given: none, text that is no number and
\* no date, integers (small ones, and 10000000000 with its two neighbours),
\* an HTTP date
HeaderValues ==
  {Absent, Junk, IntText(0), IntText(2), DateText(3000),
   WideText(Wide(WideBase - 1, WideBase - 1)), WideText(Wide(WideBase, 0)),
   WideText(Wide(WideBase, 1))}

\* RateLimiter.parseRateLimitHeaders(h), a static method
ParseHeaders(h) ==
  /\ lastOp' = Op("parseRateLimitHeaders", "global", h, ParseRateLimitHeaders(h, now))
  /\ UNCHANGED <<now, baseDelayMs, maxDelayMs, enableRetry, maxRetries, accountStates,
                 call, applied>>

NextHeaders ==
  \/ \E ra \in HeaderValues : \E rl \in HeaderValues : ParseHeaders(Hdrs(ra, rl))
  \/ Tick(MaxTicks)

SpecHeaders == InitLimiter /\ [][NextHeaders]_vars

----------------------------------------------------------------------------
(* One rate limiter tracking two accounts, reached directly and through    *)
(* UnipileClient                                                           *)

\* UnipileClient.resetRateLimit
ResetRateLimit(a) == Reset(a)

\* UnipileClient.resetAllRateLimits
ResetAllRateLimits == ResetAll

NextPair ==
  \/ \E a \in PairAccounts : ShouldWait(a)
  \/ \E a \in PairAccounts : RecordSuccess(a)
  \/ \E a \in PairAccounts : \E r \in {Null} \cup {now + o : o \in ResetOffsets} :
       /\ GetConsecutiveErrorsRet(accountStates, a) < MaxPairErrors
       /\ RecordRateLimitError(a, r)
  \/ \E a \in PairAccounts : Reset(a)
  \/ ResetAll
  \/ \E a \in PairAccounts : ResetRateLimit(a)
  \/ ResetAllRateLimits
  \/ \E a \in PairAccounts : GetCurrentBackoff(a)
  \/ \E a \in PairAccounts : GetConsecutiveErrors(a)
  \/ Tick(MaxPairTicks)

SpecPair == InitLimiter /\ [][NextPair]_vars

----------------------------------------------------------------------------
(* One request() call on a client whose rate limiter the application may   *)
(* also use directly                                                       *)

\* statuses the remote service answers with
Statuses == {200, 204, 304, 400, 401, 403, 404, 418, 422, 429, 500, 503}

\* statuses of the responses whose body is no JSON
BadBodyStatuses == {200, 204, 500}

\* UnipileErrors the transport rejects with (constructed without a context)
TypedRejections == {RateLimitError(0, 0, Null), AuthError(0, 0)}

\* rate-limit headers of a response
HeaderChoices == {NoHeaders, Hdrs(IntText(0), Absent), Hdrs(IntText(1), Absent)}

\* what one transport invocation can end in
Outcomes ==
  {Response(s, NoHeaders) : s \in Statuses \ {429}}
    \cup {Response(429, h) : h \in HeaderChoices}
    \cup {BadBody(s) : s \in BadBodyStatuses}
    \cup {Thrown("abort"), Thrown("network"), Thrown("other"), Thrown("nonError")}
    \cup {ThrownTyped(e) : e \in TypedRejections}

\* the application records a rate limit on a rate limiter not used so far,
\* before call p is made (client.getRateLimiter().recordRateLimitError(a, r))
RateLimitedBefore(p, a, r) ==
  /\ call[p].pc = "idle"
  /\ DOMAIN accountStates = {}
  /\ RecordRateLimitError(a, r)

InitClient ==
  /\ now = 1000
  /\ \E c \in DelayConfigs : baseDelayMs = c[1] /\ maxDelayMs = c[2]
  /\ \E c \in RetryConfigs : enableRetry = c[1] /\ maxRetries = c[2]
  /\ accountStates = EmptyMap
  /\ call = [p \in Calls |-> IdleCall]
  /\ lastOp = NoOp
  /\ applied = NoneApplied

NextCall ==
  \/ \E opt \in AccountOptions : Request("c1", opt)
  \/ WakePreWait("c1")
  \/ \E o \in Outcomes : Respond("c1", o)
  \/ BuildUrlFails("c1")
  \/ WakeBackoff("c1")
  \/ \E a \in Accounts : \E r \in {Null} \cup {now + o : o \in ResetOffsets} :
       RateLimitedBefore("c1", a, r)
  \/ Tick(MaxCallTicks)

SpecCall == InitClient /\ [][NextCall]_vars

\* the same with time passing and the timers of sleep() firing once due
FairCall ==
  /\ SpecCall
  /\ WF_vars(Tick(MaxCallTicks))
  /\ WF_vars(WakePreWait("c1"))
  /\ WF_vars(WakeBackoff("c1"))

----------------------------------------------------------------------------
(* One request() call with a large retry budget, followed until its last   *)
(* attempt                                                                  *)

\* (enableRetry, maxRetries) pairs of the client
RetryBudgets == {<<TRUE, 3>>, <<TRUE, 8>>}

\* what one transport invocation can end in
RetryOutcomes ==
  {Response(200, NoHeaders), Response(404, NoHeaders), Response(429, NoHeaders),
   Response(500, NoHeaders), Thrown("abort"), Thrown("network")}

\* the clock reaches the instant at which the timer of sleep() is due
Advance(p) ==
  /\ call[p].pc \in {"preWait", "backoff"}
  /\ now < call[p].wakeAt
  /\ now' = call[p].wakeAt
  /\ lastOp' = NoOp
  /\ UNCHANGED <<baseDelayMs, maxDelayMs, enableRetry, maxRetries, accountStates, call, applied>>

InitRetry ==
  /\ now = 1000
  /\ \E c \in DelayConfigs : baseDelayMs = c[1] /\ maxDelayMs = c[2]
  /\ \E c \in RetryBudgets : enableRetry = c[1] /\ maxRetries = c[2]
  /\ accountStates = EmptyMap
  /\ call = [p \in Calls |-> IdleCall]
  /\ lastOp = NoOp
  /\ applied = NoneApplied

NextRetry ==
  \/ \E opt \in AccountOptions : Request("c1", opt)
  \/ WakePreWait("c1")
  \/ \E o \in RetryOutcomes : Respond("c1", o)
  \/ WakeBackoff("c1")
  \/ \E a \in Accounts : \E r \in {Null} \cup {now + o : o \in ResetOffsets} :
       RateLimitedBefore("c1", a, r)
  \/ Advance("c1")

SpecRetry == InitRetry /\ [][NextRetry]_vars

\* the same call on a client whose rate limiter nothing else uses
NextFresh ==
  \/ \E opt \in AccountOptions : Request("c1", opt)
  \/ \E o \in RetryOutcomes : Respond("c1", o)
  \/ WakeBackoff("c1")
  \/ Advance("c1")

SpecFresh == InitRetry /\ [][NextFresh]_vars

----------------------------------------------------------------------------
(* Two request() calls in flight at once on one client, with resets of the  *)
(* rate limiter in between                                                  *)

\* the configurations of the client
ConcDelayConfigs == {<<1000, 10000>>, <<2000, 3000>>}
ConcRetryConfigs == {<<TRUE, 2>>, <<FALSE, 2>>}

\* what one transport invocation can end in
ConcOutcomes ==
  {Response(200, NoHeaders), Response(429, NoHeaders),
   Response(429, Hdrs(IntText(1), Absent)), Thrown("abort")}

InitConc ==
  /\ now = 1000
  /\ \E c \in ConcDelayConfigs : baseDelayMs = c[1] /\ maxDelayMs = c[2]
  /\ \E c \in ConcRetryConfigs : enableRetry = c[1] /\ maxRetries = c[2]
  /\ accountStates = EmptyMap
  /\ call = [p \in Calls |-> IdleCall]
  /\ lastOp = NoOp
  /\ applied = NoneApplied

NextConc ==
  \/ \E p \in Calls : \E opt \in AccountOptions : Request(p, opt)
  \/ \E p \in Calls : WakePreWait(p)
  \/ \E p \in Calls : \E o \in ConcOutcomes : Respond(p, o)
  \/ \E p \in Calls : WakeBackoff(p)
  \/ \E a \in Accounts : ResetRateLimit(a)
  \/ ResetAllRateLimits
  \/ Tick(MaxConcTicks)

SpecConc == InitConc /\ [][NextConc]_vars

\* the same with time passing and the timers of sleep() firing once due
FairConc ==
  /\ SpecConc
  /\ WF_vars(Tick(MaxConcTicks))
  /\ \A p \in Calls : WF_vars(WakePreWait(p)) /\ WF_vars(WakeBackoff(p))

----------------------------------------------------------------------------
(* Two request() calls with retry enabled on a client whose application    *)
(* records rate limits itself, as the test of the entry wait does          *)

\* what one transport invocation can end in
WaitOutcomes ==
  {Response(200, NoHeaders), Response(429, NoHeaders), Response(429, Hdrs(IntText(1), Absent))}

\* client.getRateLimiter().recordRateLimitError('acc-1', resetAt)
RateLimitSetUp(r) ==
  /\ GetConsecutiveErrorsRet(accountStates, "acc-1") < MaxPairErrors
  /\ RecordRateLimitError("acc-1", r)

InitWait ==
  /\ now = 1000
  /\ baseDelayMs = 1000 /\ maxDelayMs = 10000
  /\ enableRetry = TRUE /\ maxRetries = 2
  /\ accountStates = EmptyMap
  /\ call = [p \in Calls |-> IdleCall]
  /\ lastOp = NoOp
  /\ applied = NoneApplied

NextWait ==
  \/ \E p \in Calls : Request(p, "acc-1")
  \/ \E p \in Calls : WakePreWait(p)
  \/ \E p \in Calls : \E o \in WaitOutcomes : Respond(p, o)
  \/ \E p \in Calls : WakeBackoff(p)
  \/ \E r \in {now + 1000, now + 2000} : RateLimitSetUp(r)
  \/ Tick(MaxConcTicks)

SpecWait == InitWait /\ [][NextWait]_vars

----------------------------------------------------------------------------
(* A service that answers every request with 429: one call on a rate       *)
(* limiter not used before, and a second call made after the first ended   *)

\* what one transport invocation can end in
LimitedOutcomes == {Response(429, h) : h \in HeaderChoices}

\* the second call, made once the first has thrown
LaterRequest(opt) ==
  /\ call["c1"].pc = "thrown"
  /\ Request("c2", opt)

InitLimited ==
  /\ now = 1000
  /\ \E c \in DelayConfigs : baseDelayMs = c[1] /\ maxDelayMs = c[2]
  /\ \E c \in RetryConfigs : enableRetry = c[1] /\ maxRetries = c[2]
  /\ accountStates = EmptyMap
  /\ call = [p \in Calls |-> IdleCall]
  /\ lastOp = NoOp
  /\ applied = NoneApplied

NextLimited ==
  \/ Request("c1", "acc-1")
  \/ \E opt \in AccountOptions : LaterRequest(opt)
  \/ WakePreWait("c2")
  \/ \E p \in Calls : \E o \in LimitedOutcomes : Respond(p, o)
  \/ \E p \in Calls : WakeBackoff(p)
  \/ \E p \in Calls : Advance(p)

SpecLimited == InitLimited /\ [][NextLimited]_vars

----------------------------------------------------------------------------
(* Two request() calls followed until both have ended: every attempt is    *)
(* settled and every timer fires                                           *)

\* (enableRetry, maxRetries) pairs of the client
EndRetryConfigs == {<<TRUE, 0>>, <<TRUE, 2>>, <<FALSE, 2>>}

InitEnd ==
  /\ now = 1000
  /\ \E c \in ConcDelayConfigs : baseDelayMs = c[1] /\ maxDelayMs = c[2]
  /\ \E c \in EndRetryConfigs : enableRetry = c[1] /\ maxRetries = c[2]
  /\ accountStates = EmptyMap
  /\ call = [p \in Calls |-> IdleCall]
  /\ lastOp = NoOp
  /\ applied = NoneApplied

NextEnd ==
  \/ \E p \in Calls : \E opt \in AccountOptions : Request(p, opt)
  \/ \E p \in Calls : WakePreWait(p)
  \/ \E p \in Calls : \E o \in ConcOutcomes : Respond(p, o)
  \/ \E p \in Calls : WakeBackoff(p)
  \/ \E p \in Calls : Advance(p)

SpecEnd == InitEnd /\ [][NextEnd]_vars

\* each transport attempt is settled, time passes and the timers of sleep()
\* fire once due
FairEnd ==
  /\ SpecEnd
  /\ \A p \in Calls :
       /\ WF_vars(\E o \in ConcOutcomes : Respond(p, o))
       /\ WF_vars(Advance(p))
       /\ WF_vars(WakePreWait(p))
       /\ WF_vars(WakeBackoff(p))

----------------------------------------------------------------------------
(* Properties of request() *)

\* a call that has returned or thrown does nothing more
Finished(p) == call[p].pc \in {"returned", "thrown"} => call'[p] = call[p]

\* the error of the latest failed attempt is a typed error that is not retryable
NonRetryable(e) == e.typed /\ ~e.isRetryable

\* C1: one call of request() invokes the transport at most maxRetries times
\* when retry is enabled and at most once when it is disabled; with retry
\* disabled a 429 response is thrown as a rate_limit error after that single
\* invocation, with no wait.
C1_AttemptBudget ==
  \A p \in Calls :
    LET c == call[p]
    IN /\ enableRetry => c.invocations <= maxRetries
       /\ ~enableRetry => c.invocations <= 1
       /\ ~enableRetry /\ c.lastError.statusCode = 429 =>
            /\ c.pc = "thrown"
            /\ c.thrown = c.lastError
            /\ c.thrown.category = "rate_limit"
            /\ c.invocations = 1
            /\ c.sleeps = 0

\* retry is disabled, the single attempt got a 429 and the call has thrown
C1_Witness ==
  /\ ~enableRetry
  /\ call["c1"].pc = "thrown"
  /\ call["c1"].lastError.statusCode = 429
  /\ call["c1"].invocations = 1

\* C2: an attempt that ends in a non-retryable typed error (auth for 401/403,
\* validation for 400/422, not_found for 404, unknown for another 4xx) ends
\* the call at once: that error is thrown, and the call makes no further
\* transport invocation and no wait, whatever maxRetries is and on whichever
\* attempt it happens.
C2_NonRetryableEndsCall ==
  [][\A p \in Calls :
       LET c == call'[p]
           e == c.lastError
       IN /\ Finished(p)
          /\ e.statusCode \in {401, 403} => e.category = "auth" /\ NonRetryable(e)
          /\ e.statusCode \in {400, 422} => e.category = "validation" /\ NonRetryable(e)
          /\ e.statusCode = 404 => e.category = "not_found" /\ NonRetryable(e)
          /\ e.statusCode = 418 => e.category = "unknown" /\ NonRetryable(e)
          /\ NonRetryable(e) =>
               /\ c.pc = "thrown"
               /\ c.thrown = e
               /\ c.invocations = c.attempt
               /\ c.sleeps <= c.attempt
               /\ call[p].pc = "inflight" => c.sleeps = call[p].sleeps]_vars

\* with three attempts allowed, the second one got a 404 and the call has thrown
C2_Witness ==
  /\ enableRetry /\ maxRetries = 3
  /\ call["c1"].pc = "thrown"
  /\ call["c1"].thrown.category = "not_found"
  /\ call["c1"].thrown.retryAttempt = 2
  /\ call["c1"].invocations = 2

\* C3: with retry enabled, a call whose attempts all fail with a retryable
\* error (timeout, connection, rate_limit, HTTP >= 500) makes exactly
\* maxRetries transport invocations and then throws the error of the last
\* attempt: a retryable error of an earlier attempt never ends the call.
C3_ExhaustThrowsLast ==
  \A p \in Calls :
    LET c == call[p]
        e == c.lastError
    IN enableRetry /\ e.typed /\ e.isRetryable =>
         /\ e.category \in {"timeout", "connection", "rate_limit", "unknown"}
         /\ c.pc \in {"backoff", "inflight", "returned", "thrown"}
         /\ c.pc = "backoff" => c.attempt < maxRetries
         /\ c.pc \in {"backoff", "thrown"} /\ e.url # "none" => e.retryAttempt = c.attempt
         /\ c.pc = "thrown" =>
              /\ c.thrown = e
              /\ c.attempt = maxRetries
              /\ c.invocations = maxRetries

\* 500 then 500 with maxRetries = 2: the second 500's error is thrown after
\* two invocations
C3_Witness ==
  /\ enableRetry /\ maxRetries = 2
  /\ call["c1"].pc = "thrown"
  /\ call["c1"].thrown.statusCode = 500
  /\ call["c1"].thrown.retryAttempt = 2
  /\ call["c1"].invocations = 2
  /\ call["c1"].sleeps = 1 /\ call["c1"].sleepMs = 1000

\* C4: with retry enabled, when attempt k < maxRetries fails with a retryable
\* error and attempt k+1 gets a success response, the call returns that
\* response's envelope after exactly k+1 transport invocations, makes no
\* further attempt, and has recorded the success for its account bucket.
C4_SuccessAfterRetry ==
  [][\A p \in Calls :
       /\ Finished(p)
       /\ call[p].pc = "inflight" /\ call'[p].pc = "returned" =>
            LET c == call'[p]
                s == accountStates'[c.accountId]
            IN /\ c.result.servedOn = call[p].attempt
               /\ c.invocations = call[p].attempt
               /\ c.invocations = call[p].invocations
               /\ c.lastError = call[p].lastError
               /\ c.attempt > 1 => c.lastError.typed /\ c.lastError.isRetryable
               /\ c.accountId \in DOMAIN accountStates'
               /\ s.consecutiveErrors = 0
               /\ s.currentBackoffMs = baseDelayMs
               /\ s.resetAt = Null
               /\ s.lastRequestAt = now]_vars

\* 429 with Retry-After: 0, then 200, with maxRetries = 3: the 200 is returned
\* after two invocations
C4_Witness ==
  /\ enableRetry /\ maxRetries = 3
  /\ call["c1"].pc = "returned"
  /\ call["c1"].result = Envelope(200, 2)
  /\ call["c1"].invocations = 2
  /\ call["c1"].lastError.category = "rate_limit"
  /\ call["c1"].lastError.resetAt # Null

\* C5: when shouldWait for the call's bucket is positive at entry to request()
\* and retry is disabled, the call throws a rate_limit error whose reset time
\* is now + the wait, and never invokes the transport.
C5_RateLimitedNoRetry ==
  [][\A p \in Calls :
       /\ Finished(p)
       /\ call[p].pc = "idle" /\ call'[p].pc # "idle" /\ ~enableRetry
            /\ ShouldWaitRet(accountStates, call'[p].accountId, now) > 0 =>
            /\ call'[p].pc = "thrown"
            /\ call'[p].thrown.category = "rate_limit"
            /\ call'[p].thrown.typed
            /\ call'[p].thrown.resetAt =
                 now + ShouldWaitRet(accountStates, call'[p].accountId, now)
            /\ call'[p].invocations = 0
            /\ call'[p].sleeps = 0]_vars

\* retry is disabled and the call has thrown the rate_limit error without
\* having invoked the transport
C5_Witness ==
  /\ ~enableRetry
  /\ call["c1"].pc = "thrown"
  /\ call["c1"].thrown.category = "rate_limit"
  /\ call["c1"].thrown.resetAt > 1000
  /\ call["c1"].invocations = 0

----------------------------------------------------------------------------
(* Properties of the rate limiter *)

\* the wait (a) of shouldWait: the time left until a stored reset time that
\* is still in the future, 0 when there is none
ResetWait(s, t) == IF s.resetAt # Null /\ s.resetAt > t THEN s.resetAt - t ELSE 0

\* the wait (b) of shouldWait: what is left of currentBackoffMs since
\* lastRequestAt, counted only while consecutiveErrors > 0
BackoffWait(s, t) ==
  IF s.consecutiveErrors > 0 /\ s.lastRequestAt # Null
    THEN Max(0, s.currentBackoffMs - (t - s.lastRequestAt))
    ELSE 0

\* C6: every tracked account has currentBackoffMs within [baseDelay, maxDelay],
\* and consecutiveErrors = 0 implies currentBackoffMs = baseDelay, for the
\* baseDelay and maxDelay the rate limiter was constructed with.
C6_BackoffWithinBounds ==
  \A a \in DOMAIN accountStates :
    /\ baseDelayMs <= accountStates[a].currentBackoffMs
    /\ accountStates[a].currentBackoffMs <= maxDelayMs
    /\ accountStates[a].consecutiveErrors = 0 =>
         accountStates[a].currentBackoffMs = baseDelayMs

\* C7: recordRateLimitError(acc) without a reset time sets currentBackoffMs to
\* min(2 x the previous currentBackoffMs, maxDelay), which never exceeds
\* maxDelay; with base 1000 and max 10000 the steps from a fresh account are
\* 1000 -> 2000 -> 4000 -> 8000 -> 10000 -> 10000.
C7_DoublingCapped ==
  [][lastOp'.op = "recordRateLimitError" /\ lastOp'.arg = Null =>
       LET a == lastOp'.acc
           prev == IF a \in DOMAIN accountStates
                     THEN accountStates[a].currentBackoffMs
                     ELSE baseDelayMs
           next == accountStates'[a].currentBackoffMs
       IN /\ next = Min(2 * prev, maxDelayMs)
          /\ next <= maxDelayMs
          /\ GetCurrentBackoffRet(accountStates', a) = next
          /\ baseDelayMs = 1000 /\ maxDelayMs = 10000 =>
               /\ prev \in {1000, 2000, 4000, 8000, 10000}
               /\ prev = 1000 => next = 2000
               /\ prev = 2000 => next = 4000
               /\ prev = 4000 => next = 8000
               /\ prev = 8000 => next = 10000
               /\ prev = 10000 => next = 10000]_vars

\* with base 1000 and max 10000, the fifth rate-limit error in a row has just
\* been recorded without a reset time and the backoff stands at the cap
C7_Witness ==
  /\ baseDelayMs = 1000 /\ maxDelayMs = 10000
  /\ lastOp.op = "recordRateLimitError" /\ lastOp.arg = Null
  /\ accountStates[lastOp.acc].consecutiveErrors = 5
  /\ accountStates[lastOp.acc].currentBackoffMs = 10000
  /\ accountStates[lastOp.acc].resetAt = Null

\* C8: after recordSuccess(acc), whatever the account's state was before
\* (tracked or not), getConsecutiveErrors(acc) = 0, getCurrentBackoff(acc) =
\* baseDelay, resetAt is cleared and shouldWait(acc) returns 0, then and at any
\* later time.
C8_SuccessResets ==
  lastOp.op = "recordSuccess" =>
    LET a == lastOp.acc
    IN /\ a \in DOMAIN accountStates
       /\ GetConsecutiveErrorsRet(accountStates, a) = 0
       /\ GetCurrentBackoffRet(accountStates, a) = baseDelayMs
       /\ accountStates[a].resetAt = Null
       /\ accountStates[a].lastRequestAt = now
       /\ \A k \in 0..(MaxTicks + 1) :
            ShouldWaitRet(accountStates, a, now + k * 1000) = 0

\* a success has just been recorded, after the clock has advanced
C8_Witness ==
  /\ lastOp.op = "recordSuccess"
  /\ accountStates[lastOp.acc].lastRequestAt > 1000

C10_LargerOfBoth ==
  lastOp.op = "shouldWait" /\ lastOp.ret > 0 =>
    lastOp.ret = Max(ResetWait(accountStates[lastOp.acc], now),
                     BackoffWait(accountStates[lastOp.acc], now))

\* C10 as amended: a positive value returned by shouldWait(acc) is (a) when a
\* stored reset time is still in the future, also when (b) is larger, and (b)
\* otherwise.
C10_ResetTimeFirst ==
  lastOp.op = "shouldWait" /\ lastOp.ret > 0 =>
    lastOp.ret = IF ResetWait(accountStates[lastOp.acc], now) > 0
                   THEN ResetWait(accountStates[lastOp.acc], now)
                   ELSE BackoffWait(accountStates[lastOp.acc], now)

\* shouldWait has just returned the time left until the reset time although
\* more of the backoff is left
C10_Witness ==
  /\ lastOp.op = "shouldWait" /\ lastOp.ret > 0
  /\ lastOp.ret = ResetWait(accountStates[lastOp.acc], now)
  /\ BackoffWait(accountStates[lastOp.acc], now) > lastOp.ret

\* C11: recordRateLimitError(acc, resetAt) with a reset time supplied raises
\* consecutiveErrors by exactly 1, stamps lastRequestAt with the current time,
\* stores resetAt as given and leaves currentBackoffMs as it was (baseDelay for
\* an account not tracked before): under repeated server-supplied reset times
\* consecutiveErrors grows while getCurrentBackoff(acc) does not.
C11_ResetTimeKeepsBackoff ==
  [][lastOp'.op = "recordRateLimitError" /\ lastOp'.arg # Null =>
       LET a == lastOp'.acc
           prev == GetAccountState(accountStates, a)[a]
           next == accountStates'[a]
       IN /\ next.consecutiveErrors = prev.consecutiveErrors + 1
          /\ next.lastRequestAt = now
          /\ next.resetAt = lastOp'.arg
          /\ next.currentBackoffMs = prev.currentBackoffMs
          /\ GetCurrentBackoffRet(accountStates', a) = GetCurrentBackoffRet(accountStates, a)
          /\ GetConsecutiveErrorsRet(accountStates', a) >
               GetConsecutiveErrorsRet(accountStates, a)]_vars

\* three rate-limit errors in a row were recorded with a reset time, the last
\* one just now, and the backoff still is baseDelay although it could double
C11_Witness ==
  /\ lastOp.op = "recordRateLimitError" /\ lastOp.arg # Null
  /\ accountStates[lastOp.acc].consecutiveErrors = 3
  /\ accountStates[lastOp.acc].currentBackoffMs = baseDelayMs
  /\ accountStates[lastOp.acc].resetAt = lastOp.arg
  /\ baseDelayMs * 2 <= maxDelayMs

\* the state of an account as good as never referenced
Untouched(s) ==
  /\ s.consecutiveErrors = 0
  /\ s.currentBackoffMs = baseDelayMs
  /\ s.resetAt = Null
  /\ s.lastRequestAt = Null

\* account a answers like an account never referenced
AnswersAsNew(states, a) ==
  /\ GetConsecutiveErrorsRet(states, a) = 0
  /\ GetCurrentBackoffRet(states, a) = baseDelayMs
  /\ \A k \in 0..(MaxPairTicks + 1) : ShouldWaitRet(states, a, now + k * 1000) = 0

\* C12: reset(acc), also when made through UnipileClient.resetRateLimit,
\* discards the state of acc only: every other account is tracked exactly as
\* before with the same four fields, and acc afterwards answers like an
\* account never referenced (errors 0, backoff baseDelay, shouldWait 0);
\* resetAll(), also through UnipileClient.resetAllRateLimits, does so for
\* every tracked account.
C12_ResetDiscardsOnlyThat ==
  [][/\ lastOp'.op = "reset" =>
          /\ lastOp'.acc \notin DOMAIN accountStates'
          /\ AnswersAsNew(accountStates', lastOp'.acc)
          /\ \A b \in PairAccounts \ {lastOp'.acc} :
               /\ b \in DOMAIN accountStates' <=> b \in DOMAIN accountStates
               /\ b \in DOMAIN accountStates => accountStates'[b] = accountStates[b]
     /\ lastOp'.op = "resetAll" =>
          /\ DOMAIN accountStates' = {}
          /\ \A b \in PairAccounts : AnswersAsNew(accountStates', b)]_vars

\* acc-1, which had state, has just been reset while acc-2 stands at two
\* rate-limit errors with a reset time and a doubled backoff
C12_Witness ==
  /\ lastOp.op = "reset" /\ lastOp.acc = "acc-1"
  /\ DOMAIN accountStates = {"acc-2"}
  /\ accountStates["acc-2"].consecutiveErrors = 2
  /\ accountStates["acc-2"].resetAt # Null
  /\ accountStates["acc-2"].currentBackoffMs > baseDelayMs

\* C13: for an account that is not tracked (never referenced, or discarded by
\* reset / resetAll), shouldWait returns 0, getConsecutiveErrors returns 0 and
\* getCurrentBackoff returns baseDelay, whatever the state of the other
\* accounts, and the entry the call creates is a brand-new one.
C13_UntrackedAnswersAsNew ==
  [][\A a \in PairAccounts \ DOMAIN accountStates :
       /\ AnswersAsNew(accountStates, a)
       /\ lastOp'.acc = a /\ lastOp'.op = "shouldWait" =>
            lastOp'.ret = 0 /\ Untouched(accountStates'[a])
       /\ lastOp'.acc = a /\ lastOp'.op = "getConsecutiveErrors" =>
            lastOp'.ret = 0 /\ Untouched(accountStates'[a])
       /\ lastOp'.acc = a /\ lastOp'.op = "getCurrentBackoff" =>
            lastOp'.ret = baseDelayMs /\ Untouched(accountStates'[a])]_vars

\* shouldWait has just returned 0 for acc-2, tracked only since that call,
\* while acc-1 has a pending reset time and a doubled backoff
C13_Witness ==
  /\ lastOp.op = "shouldWait" /\ lastOp.acc = "acc-2" /\ lastOp.ret = 0
  /\ DOMAIN accountStates = PairAccounts
  /\ Untouched(accountStates["acc-2"])
  /\ accountStates["acc-1"].consecutiveErrors = 2
  /\ accountStates["acc-1"].resetAt # Null /\ accountStates["acc-1"].resetAt > now
  /\ accountStates["acc-1"].currentBackoffMs > baseDelayMs

\* C14: every outcome of a request() call is fed back into the rate-limiter
\* state of the call's account bucket: the attempt that succeeds is recorded
\* with recordSuccess, and every attempt answered with HTTP 429 is recorded
\* with recordRateLimitError (one more consecutive error, stamped now), so
\* that a later shouldWait for the bucket sees it.
C14_OutcomesFeedBack ==
  [][\A p \in Calls :
       call[p].pc = "inflight" /\ call'[p].pc # "inflight" =>
         LET c == call'[p]
             a == c.accountId
         IN /\ c.pc = "returned" =>
                 /\ a \in DOMAIN accountStates'
                 /\ Untouched([accountStates'[a] EXCEPT !.lastRequestAt = Null])
                 /\ accountStates'[a].lastRequestAt = now
            /\ c.pc # "returned" /\ c.lastError.statusCode = 429 =>
                 /\ a \in DOMAIN accountStates'
                 /\ accountStates'[a].consecutiveErrors =
                      GetConsecutiveErrorsRet(accountStates, a) + 1
                 /\ accountStates'[a].lastRequestAt = now]_vars

\* C15: a request() call that fails hands its caller a typed error (a
\* UnipileError, with a category and a retryable flag) and never a raw
\* exception or an untyped value, whatever failed: the transport rejecting
\* with a value that is no Error, a response body that cannot be decoded, or
\* the request URL that cannot be built.
C15_OnlyTypedErrors ==
  \A p \in Calls :
    call[p].pc = "thrown" =>
      /\ call[p].thrown.typed
      /\ call[p].thrown.category \in
           {"timeout", "connection", "rate_limit", "auth", "validation", "not_found", "unknown"}

\* C16: a response whose status is not 2xx (1xx and 3xx included) makes the
\* attempt fail with a typed error; request() never returns a response with a
\* status outside 200..299 as a success.
C16_SuccessIsTwoHundreds ==
  \A p \in Calls :
    call[p].pc = "returned" =>
      call[p].result.status >= 200 /\ call[p].result.status <= 299

\* the (category, retryable) pairs the classification table gives status s,
\* one set per row of the table
ClassifiedAs(s) ==
  {<<"rate_limit", TRUE>> : x \in {s} \cap {429}}
    \cup {<<"auth", FALSE>> : x \in {s} \cap {401, 403}}
    \cup {<<"not_found", FALSE>> : x \in {s} \cap {404}}
    \cup {<<"validation", FALSE>> : x \in {s} \cap {400, 422}}
    \cup {<<"unknown", TRUE>> : x \in {y \in {s} : y >= 500}}
    \cup {<<"unknown", FALSE>> :
             x \in {y \in {s} : y >= 400 /\ y < 500} \ {429, 401, 403, 404, 400, 422}}

\* the error statuses the classification is probed with: those the service
\* answers with in the model and the edges of the ranges
ErrorStatuses == {s \in Statuses \cup {402, 499, 501, 599} : s >= 400}

\* C17: the classification of a returned HTTP status >= 400 is a total
\* function with fixed retryability: 429 -> rate_limit (retryable); 401, 403
\* -> auth (not retryable); 404 -> not_found (not retryable); 400, 422 ->
\* validation (not retryable); >= 500 -> unknown (retryable); any other
\* status >= 400 -> unknown (not retryable).  Exactly one row of the table
\* applies to each status, and the error of every failed attempt that carries
\* a status agrees with it, whether or not the body can be decoded.
C17_StatusClassification ==
  /\ \A s \in ErrorStatuses :
       LET r == HandleResponse(s, NoHeaders, TRUE, 1, now)
           table == ClassifiedAs(s)
       IN /\ ~r.ok /\ r.err.typed /\ r.err.statusCode = s
          /\ Cardinality(table) = 1
          /\ table = {<<r.err.category, r.err.isRetryable>>}
          /\ HandleResponse(s, NoHeaders, FALSE, 1, now) = r
  /\ \A p \in Calls :
       LET e == call[p].lastError
       IN e.statusCode # 0 =>
            /\ e.statusCode >= 400
            /\ ClassifiedAs(e.statusCode) = {<<e.category, e.isRetryable>>}

\* the second attempt of a call was answered 418, and the call has
\* thrown the non-retryable unknown error
C17_Witness ==
  /\ call["c1"].pc = "thrown" /\ call["c1"].attempt = 2
  /\ call["c1"].thrown.statusCode = 418
  /\ call["c1"].thrown.category = "unknown" /\ ~call["c1"].thrown.isRetryable
  /\ call["c1"].sleepMs = 1000

\* the step is the attempt in flight of call p settling with outcome o
Settles(p, o) == call[p].pc = "inflight" /\ Respond(p, o)

\* the values the transport rejects with that executeRequest does not recognize
Unrecognized == {Thrown("other"), Thrown("nonError")}

\* C18 as claimed: an unrecognized thrown value (no cancellation, no
\* recognized connectivity failure, no typed error) is classified as unknown
\* and not retryable, so the call throws it right after that attempt.
C18_UnrecognizedNotRetried ==
  [][\A p \in Calls : \A o \in Unrecognized :
       Settles(p, o) =>
         /\ call'[p].lastError.category = "unknown"
         /\ ~call'[p].lastError.isRetryable
         /\ call'[p].pc = "thrown"
         /\ call'[p].thrown = call'[p].lastError]_vars

\* C18 as amended: an unrecognized thrown value is classified as unknown and
\* retryable; the call throws it after that attempt only when the attempt was
\* the last one allowed, and otherwise waits min(1000 x 2^(attempt-1), 30000)
\* ms for the next attempt.
C18_UnrecognizedRetried ==
  [][\A p \in Calls : \A o \in Unrecognized :
       Settles(p, o) =>
         LET c == call'[p]
         IN /\ c.lastError.category = "unknown"
            /\ c.lastError.typed /\ c.lastError.isRetryable
            /\ c.attempt = call[p].attempt
            /\ c.attempt >= MaxAttempts => c.pc = "thrown" /\ c.thrown = c.lastError
            /\ c.attempt < MaxAttempts =>
                 /\ c.pc = "backoff"
                 /\ c.sleeps = call[p].sleeps + 1
                 /\ c.sleepMs = Min(1000 * 2 ^ (c.attempt - 1), 30000)
                 /\ c.wakeAt = now + c.sleepMs]_vars

\* after two unrecognized thrown values the call is in flight for the third
\* time, having waited 2000 ms after the second
C18_Witness ==
  /\ call["c1"].pc = "inflight" /\ call["c1"].attempt = 3
  /\ call["c1"].lastError.category = "unknown"
  /\ call["c1"].lastError.statusCode = 0
  /\ call["c1"].lastError.url = "request"
  /\ call["c1"].sleeps = 2 /\ call["c1"].sleepMs = 2000

\* the category executeRequest gives a thrown value that is no typed error
ThrownCategory(o) ==
  IF o.kind = "abort" THEN "timeout"
  ELSE IF o.kind = "network" THEN "connection"
  ELSE "unknown"

\* C19: when the transport throws, a cancellation (AbortError) gives a timeout
\* error, a message with ECONNREFUSED, ENOTFOUND or 'network' gives a
\* connection error, and any other value that is no typed error is wrapped as
\* unknown with the retryable flag set; each carries the request URL, the
\* method and the number of the attempt it occurred on; with retry enabled
\* all three are retried while attempts remain.
C19_ThrownClassified ==
  [][\A p \in Calls :
       \A o \in {Thrown("abort"), Thrown("network"), Thrown("other"), Thrown("nonError")} :
         Settles(p, o) =>
           LET c == call'[p]
               e == c.lastError
           IN /\ e.typed /\ e.isRetryable
              /\ e.category = ThrownCategory(o)
              /\ e.url = "request" /\ e.method
              /\ e.retryAttempt = call[p].attempt
              /\ e.statusCode = 0
              /\ enableRetry /\ call[p].attempt < maxRetries =>
                   /\ c.pc = "backoff"
                   /\ c.attempt = call[p].attempt
                   /\ c.invocations = call[p].invocations
                   /\ accountStates' = accountStates
              /\ c.pc = "thrown" => c.thrown = e /\ c.attempt >= MaxAttempts]_vars

\* a cancellation on the first attempt and a connectivity failure on the
\* second: the call waits for its third attempt
C19_Witness ==
  /\ enableRetry /\ maxRetries = 3
  /\ call["c1"].pc = "backoff" /\ call["c1"].attempt = 2
  /\ call["c1"].lastError.category = "connection"
  /\ call["c1"].lastError.retryAttempt = 2
  /\ call["c1"].lastError.url = "request"
  /\ call["c1"].sleeps = 2 /\ call["c1"].sleepMs = 2000

\* C20: a typed error thrown by the transport passes through executeRequest
\* and request() as it is: it is the error of the attempt, with its own
\* category and retryable flag and never wrapped as unknown; request() throws
\* it at once when it is not retryable or the attempt was the last one, and
\* retries after it otherwise, as for an error made by classification.
C20_TypedPassesUnchanged ==
  [][\A p \in Calls : \A e \in TypedRejections :
       Settles(p, ThrownTyped(e)) =>
         LET c == call'[p]
         IN /\ ExecuteRequest(ThrownTyped(e), call[p].attempt, now) = Fail(e)
            /\ c.lastError = e
            /\ c.pc \in {"thrown", "backoff"}
            /\ c.pc = "thrown" <=> ~e.isRetryable \/ call[p].attempt >= MaxAttempts
            /\ c.pc = "thrown" => c.thrown = e
            /\ c.pc = "backoff" =>
                 /\ c.attempt = call[p].attempt
                 /\ e.category = "rate_limit" =>
                      /\ accountStates'[c.accountId].consecutiveErrors =
                           GetConsecutiveErrorsRet(accountStates, c.accountId) + 1
                      /\ c.sleepMs = accountStates'[c.accountId].currentBackoffMs]_vars

\* the transport threw a rate_limit error without context on the first
\* attempt and an auth error on the second, which the call has thrown as it is
C20_Witness ==
  /\ call["c1"].pc = "thrown" /\ call["c1"].attempt = 2
  /\ call["c1"].thrown = AuthError(0, 0)
  /\ call["c1"].sleeps = 1
  /\ accountStates[call["c1"].accountId].consecutiveErrors = 1
  /\ accountStates[call["c1"].accountId].currentBackoffMs = call["c1"].sleepMs

\* the last instant the clock of a request() run reaches
LastCallInstant == (MaxCallTicks + 1) * 1000

\* call p waits between two attempts after a timeout
AfterTimeout(p) ==
  call[p].pc = "backoff" /\ call[p].lastError.category = "timeout"

\* C21: with retry enabled, a timeout on attempt k < maxRetries ends that
\* attempt only: the call waits the retry delay and then makes attempt k+1
\* (its next step, taken once the delay has elapsed and not before); the
\* timeout is thrown to the caller only when it occurs on the last allowed
\* attempt.
C21_TimeoutEndsAttemptOnly ==
  /\ [][\A p \in Calls :
          /\ Settles(p, Thrown("abort")) =>
               /\ call'[p].lastError.category = "timeout"
               /\ enableRetry /\ call[p].attempt < maxRetries =>
                    /\ call'[p].pc = "backoff"
                    /\ call'[p].wakeAt = now + Min(1000 * 2 ^ (call[p].attempt - 1), 30000)
               /\ call'[p].pc = "thrown" =>
                    /\ call[p].attempt >= MaxAttempts
                    /\ call'[p].thrown.category = "timeout"
          /\ AfterTimeout(p) /\ call'[p] # call[p] =>
               /\ now >= call[p].wakeAt
               /\ call'[p].pc = "inflight"
               /\ call'[p].attempt = call[p].attempt + 1
               /\ call'[p].invocations = call[p].invocations + 1]_vars
  /\ \A k \in 1..3 :
       (AfterTimeout("c1") /\ call["c1"].attempt = k /\ call["c1"].wakeAt <= LastCallInstant)
         ~> (call["c1"].pc = "inflight" /\ call["c1"].attempt = k + 1)

\* after timeouts on the first two attempts, the third attempt is in flight
C21_Witness ==
  /\ call["c1"].pc = "inflight" /\ call["c1"].attempt = 3
  /\ call["c1"].lastError.category = "timeout"
  /\ call["c1"].lastError.retryAttempt = 2
  /\ call["c1"].sleeps = 2 /\ call["c1"].sleepMs = 2000

\* C22: under every interleaving of concurrent request() calls and resets on
\* one client, for each account consecutiveErrors equals the number of
\* recordRateLimitError calls applied to it since its last recordSuccess,
\* reset or resetAll (no increment lost or doubled, never negative; 0 for an
\* account not tracked), and with baseDelay <= maxDelay currentBackoffMs
\* equals min(baseDelay x 2^k, maxDelay), k being the number of those calls
\* made without a reset time.
C22_CountersNeverCorrupted ==
  \A a \in Accounts :
    /\ applied[a].errors >= 0
    /\ a \notin DOMAIN accountStates => applied[a].errors = 0
    /\ a \in DOMAIN accountStates =>
         /\ accountStates[a].consecutiveErrors = applied[a].errors
         /\ baseDelayMs <= maxDelayMs =>
              accountStates[a].currentBackoffMs =
                Min(baseDelayMs * 2 ^ applied[a].doublings, maxDelayMs)

\* both calls wait between attempts on the same account, one after a 429 with
\* Retry-After and one after a 429 without: two errors, one doubling
C22_Witness ==
  /\ call["c1"].pc = "backoff" /\ call["c2"].pc = "backoff"
  /\ call["c1"].accountId = call["c2"].accountId
  /\ call["c1"].lastError.resetAt # Null /\ call["c2"].lastError.resetAt = Null
  /\ call["c1"].lastError.category = "rate_limit"
  /\ call["c2"].lastError.category = "rate_limit"
  /\ accountStates[call["c1"].accountId].consecutiveErrors = 2
  /\ accountStates[call["c1"].accountId].currentBackoffMs = 2 * baseDelayMs

\* the last instant the clock reaches while calls run concurrently
LastConcInstant == (MaxConcTicks + 1) * 1000

\* call p is suspended in sleep()
Suspended(p) == call[p].pc \in {"preWait", "backoff"}

\* C23: a call suspended in the wait before its first attempt or between two
\* attempts never keeps another call from proceeding: a call (for the same or
\* another account) whose own shouldWait is 0 at entry invokes the transport
\* in the step it is made in, whatever the other calls are doing, and a
\* suspended call goes on to its next attempt once its own wait has elapsed,
\* also while the other call is suspended.
C23_WaitsDoNotBlock ==
  /\ [][\A p \in Calls :
          call[p].pc = "idle" /\ call'[p].pc # "idle"
            /\ ShouldWaitRet(accountStates, call'[p].accountId, now) = 0 =>
            /\ call'[p].pc = "inflight"
            /\ call'[p].invocations = 1
            /\ call'[p].sleeps = 0]_vars
  /\ \A p \in Calls :
       (Suspended(p) /\ call[p].wakeAt <= LastConcInstant) ~> (call[p].pc = "inflight")

\* c1 is suspended between two attempts while c2, which never waited, has
\* its first attempt in flight for the same account
C23_Witness ==
  /\ call["c1"].pc = "backoff" /\ call["c1"].wakeAt > now
  /\ call["c2"].pc = "inflight" /\ call["c2"].sleeps = 0
  /\ call["c2"].accountId = call["c1"].accountId

\* parseRateLimitHeaders has just been called with headers in which
\* Retry-After gives nothing and X-RateLimit-Reset is an integer
ParsedResetHeader ==
  /\ lastOp.op = "parseRateLimitHeaders"
  /\ lastOp.arg.retryAfter.kind \in {"absent", "junk"}
  /\ lastOp.arg.rateLimitReset.kind = "int"

\* C25: parseRateLimitHeaders reads an X-RateLimit-Reset value t as seconds
\* since the epoch (the instant t x 1000 ms) when t is below 10,000,000,000
\* and as milliseconds (the instant t) when t is 10,000,000,000 or more, the
\* threshold value itself included.
C25_ThresholdIsMilliseconds ==
  ParsedResetHeader =>
    LET t == lastOp.arg.rateLimitReset.v
    IN lastOp.ret = IF WideGreater(MsThreshold, t) THEN WideTimes1000(t) ELSE t

\* C26: parseRateLimitHeaders tries Retry-After first, as integer seconds
\* from now and else as an HTTP date; when Retry-After parses,
\* X-RateLimit-Reset is ignored; X-RateLimit-Reset is used only when
\* Retry-After is absent or parses as neither; the result is undefined
\* exactly when neither header is present and parseable.
C26_RetryAfterFirst ==
  lastOp.op = "parseRateLimitHeaders" =>
    LET ra == lastOp.arg.retryAfter
        rl == lastOp.arg.rateLimitReset
        ret == lastOp.ret
    IN /\ ra.kind = "int" => ret = WidePlus(Widen(now), WideTimes1000(ra.v))
       /\ ra.kind = "date" => ret = ra.v
       /\ ra.kind \in {"int", "date"} =>
            ret = ParseRateLimitHeaders(Hdrs(ra, Absent), now)
       /\ ra.kind \in {"absent", "junk"} =>
            ret = ParseRateLimitHeaders(Hdrs(Absent, rl), now)
       /\ ra.kind \in {"absent", "junk"} /\ rl.kind = "int" =>
            ret \in {rl.v, WideTimes1000(rl.v)}
       /\ ret = NoInstant <=>
            ra.kind \in {"absent", "junk"} /\ rl.kind # "int"

\* Retry-After was neither a number nor a date, and the reset instant 2000
\* was taken from X-RateLimit-Reset: 2
C26_Witness ==
  /\ lastOp.op = "parseRateLimitHeaders"
  /\ lastOp.arg = Hdrs(Junk, IntText(2))
  /\ lastOp.ret = Widen(2000)

\* call p invokes the transport in this step
Invokes(p) == call'[p].invocations > call[p].invocations

\* C24: with retry enabled, once a 429 carrying a future reset time has been
\* received for an account, no transport invocation for that account starts
\* before that reset time, in the same call or in any concurrent or later
\* call, unless reset or resetAll has been called since.
C24_NoInvocationBeforeReset ==
  [][\A p \in Calls :
       enableRetry /\ Invokes(p) =>
         now >= applied[call'[p].accountId].deadline]_vars

\* C27: RateLimitError.getRetryAfterMs() is never negative: it returns 0
\* when no reset time was set or the reset time is at or before the current
\* time, and otherwise exactly resetAt - now; called again on the same error
\* later, it returns no more than before.
C27_RetryAfterNeverNegative ==
  [][lastOp'.op = "getRetryAfterMs" /\ now' = now =>
       LET r == lastOp'.arg
           ret == lastOp'.ret
       IN /\ ret >= 0
          /\ r = Null \/ r <= now => ret = 0
          /\ r # Null /\ r > now => ret = r - now
          /\ lastOp.op = "getRetryAfterMs" => ret <= lastOp.ret]_vars

\* the error's reset time 3000 is 1000 ms away after the clock has advanced
\* to 2000
C27_Witness ==
  /\ lastOp.op = "getRetryAfterMs"
  /\ lastOp.arg = 3000
  /\ now = 2000
  /\ lastOp.ret = 1000

\* the rate-limiter map with every bucket but that of account a forgotten
OwnBucket(states, a) == [b \in DOMAIN states \cap {a} |-> states[b]]

\* the step leaves the bucket of account b as it is
BucketUnchanged(b) ==
  /\ b \in DOMAIN accountStates' <=> b \in DOMAIN accountStates
  /\ b \in DOMAIN accountStates => accountStates'[b] = accountStates[b]

\* C28: a request() call reads and writes rate-limiter state only for its
\* own bucket, options.accountId or 'global' when there is none: no step of
\* a call for account A changes the state of another account B, and what the
\* call does (invoke at once, wait and for how long, throw) is what it would
\* do if the other buckets did not exist, so a rate limit on A never delays
\* a call for B.
C28_OwnBucketOnly ==
  [][\A p \in Calls :
       /\ call'[p] # call[p] =>
            \A b \in Accounts \ {call'[p].accountId} : BucketUnchanged(b)
       /\ \A opt \in AccountOptions :
            call[p].pc = "idle" /\ Request(p, opt) =>
              LET a == IF opt = NoAccountId THEN "global" ELSE opt
                  own == OwnBucket(accountStates, a)
                  waitTime == ShouldWaitRet(own, a, now)
              IN /\ call'[p].accountId = a
                 /\ a \in DOMAIN accountStates'
                 /\ waitTime = 0 => call'[p].pc = "inflight" /\ call'[p].sleeps = 0
                 /\ waitTime > 0 /\ enableRetry =>
                      call'[p].pc = "preWait" /\ call'[p].wakeAt = now + waitTime
                 /\ waitTime > 0 /\ ~enableRetry =>
                      call'[p].pc = "thrown" /\ call'[p].thrown.resetAt = now + waitTime
       /\ \A o \in ConcOutcomes :
            Settles(p, o) =>
              LET c == call[p]
                  r == ExecuteRequest(o, c.attempt, now)
                  own == OwnBucket(accountStates, c.accountId)
              IN /\ call'[p].accountId = c.accountId
                 /\ ~r.ok => call'[p] = CatchCall(c, r.err, own, now)
                 /\ OwnBucket(accountStates', c.accountId) =
                      IF r.ok THEN RecordSuccessPost(own, c.accountId, now)
                      ELSE CatchStates(c, r.err, own, now)]_vars

\* the bucket 'global' is rate limited, c1 waiting on it after a 429, while
\* the first attempt of c2 for acc-1 is in flight without any wait
C28_Witness ==
  /\ call["c1"].pc = "backoff" /\ call["c1"].accountId = "global"
  /\ call["c1"].lastError.category = "rate_limit"
  /\ ShouldWaitRet(accountStates, "global", now) > 0
  /\ call["c2"].pc = "inflight" /\ call["c2"].accountId = "acc-1"
  /\ call["c2"].sleeps = 0
  /\ accountStates["acc-1"].consecutiveErrors = 0

\* C29: with retry enabled, when an attempt that is not the last fails with
\* a rate_limit error, the error is recorded with
\* recordRateLimitError(account, error.resetAt), and the call then sleeps
\* for the time left until the error's reset time when that is positive and
\* otherwise for the account's backoff as it is after the recording; the
\* next attempt starts only once that sleep is over.  (The error of the
\* attempt that has just failed is the call's lastError.)
C29_RateLimitRecordedThenWait ==
  [][/\ LET c == call["c1"]
            e == call'["c1"].lastError
            a == c.accountId
        IN c.pc = "inflight" /\ call'["c1"].pc \notin {"inflight", "returned"}
             /\ e.typed /\ e.category = "rate_limit"
             /\ enableRetry /\ c.attempt < maxRetries =>
             /\ accountStates' = RecordRateLimitErrorPost(accountStates, a, e.resetAt, now)
             /\ call'["c1"].pc = "backoff"
             /\ call'["c1"].attempt = c.attempt
             /\ call'["c1"].invocations = c.invocations
             /\ call'["c1"].sleepMs =
                  IF e.resetAt # Null /\ e.resetAt - now > 0
                    THEN e.resetAt - now
                    ELSE accountStates'[a].currentBackoffMs
             /\ call'["c1"].wakeAt = now + call'["c1"].sleepMs
     /\ call["c1"].pc = "backoff" /\ call'["c1"] # call["c1"] =>
          /\ now >= call["c1"].wakeAt
          /\ call'["c1"].attempt = call["c1"].attempt + 1]_vars

\* a first 429 without reset time on a limiter with base delay 1000: the
\* call sleeps the doubled backoff, 2000 ms
C29_Witness ==
  /\ call["c1"].pc = "backoff"
  /\ call["c1"].lastError.category = "rate_limit"
  /\ call["c1"].lastError.resetAt = Null
  /\ baseDelayMs = 1000 /\ maxDelayMs = 10000
  /\ accountStates[call["c1"].accountId].consecutiveErrors = 1
  /\ call["c1"].sleepMs = 2000

\* C30: with retry enabled, the wait after attempt n, not the last, that
\* failed with a retryable error other than rate_limit is
\* min(1000 x 2^(n-1), 30000) ms, whatever retryBaseDelay, retryMaxDelay and
\* the state of the rate limiter are, and the rate limiter is left as it is.
C30_FixedRetryDelay ==
  [][LET c == call["c1"]
         e == call'["c1"].lastError
         n == c.attempt
     IN c.pc = "inflight" /\ call'["c1"].pc \notin {"inflight", "returned"}
          /\ e.typed /\ e.isRetryable /\ e.category # "rate_limit"
          /\ enableRetry /\ n < maxRetries =>
          /\ call'["c1"].pc = "backoff"
          /\ call'["c1"].sleepMs = (IF n >= 6 THEN 30000 ELSE 1000 * 2 ^ (n - 1))
          /\ call'["c1"].wakeAt = now + call'["c1"].sleepMs
          /\ accountStates' = accountStates]_vars

\* the sixth attempt has failed with a timeout and the call sleeps the
\* ceiling of 30000 ms, on a client whose rate limiter has base delay 2000
\* and maximum delay 3000 and has a rate limit recorded
C30_Witness ==
  /\ call["c1"].pc = "backoff"
  /\ call["c1"].attempt = 6
  /\ call["c1"].lastError.category = "timeout"
  /\ call["c1"].sleepMs = 30000
  /\ baseDelayMs = 2000 /\ maxDelayMs = 3000
  /\ accountStates[call["c1"].accountId].consecutiveErrors > 0

\* the last step was a call of one of the three reading methods
ReadOps == {"shouldWait", "getCurrentBackoff", "getConsecutiveErrors"}

\* C31: shouldWait, getCurrentBackoff and getConsecutiveErrors never change
\* consecutiveErrors, currentBackoffMs or lastRequestAt of any account; all
\* they change is to create the initial entry for an account not seen before
\* and, in shouldWait, to clear a resetAt that has passed.  While resetAt is
\* in the future shouldWait returns resetAt - now, whatever the backoff
\* condition would give, and changes nothing.
C31_ReadsChangeNothingElse ==
  [][lastOp'.op \in ReadOps /\ now' = now =>
       LET a == lastOp'.acc
       IN /\ \A b \in PairAccounts \ {a} : BucketUnchanged(b)
          /\ a \in DOMAIN accountStates'
          /\ a \notin DOMAIN accountStates => accountStates'[a] = FreshState
          /\ a \in DOMAIN accountStates =>
               LET s == accountStates[a]
                   passed == s.resetAt # Null /\ s.resetAt <= now
               IN /\ accountStates'[a].consecutiveErrors = s.consecutiveErrors
                  /\ accountStates'[a].currentBackoffMs = s.currentBackoffMs
                  /\ accountStates'[a].lastRequestAt = s.lastRequestAt
                  /\ accountStates'[a].resetAt =
                       IF lastOp'.op = "shouldWait" /\ passed THEN Null ELSE s.resetAt
                  /\ lastOp'.op = "shouldWait" /\ s.resetAt # Null /\ s.resetAt > now =>
                       /\ lastOp'.ret = s.resetAt - now
                       /\ accountStates' = accountStates]_vars

\* shouldWait has cleared the passed reset time of an account whose one
\* error was recorded with a reset time, while the other account's reset
\* time, still in the future, is in place
C31_Witness ==
  /\ lastOp.op = "shouldWait" /\ lastOp.acc = "acc-1"
  /\ DOMAIN accountStates = PairAccounts
  /\ accountStates["acc-1"].consecutiveErrors = 1
  /\ accountStates["acc-1"].currentBackoffMs = baseDelayMs
  /\ accountStates["acc-1"].resetAt = Null
  /\ accountStates["acc-2"].resetAt > now

\* call p's attempt in flight is settled by the transport in this step
AttemptEnds(p) ==
  /\ call[p].pc = "inflight" /\ call'[p].pc # "inflight"
  /\ ~(call'[p].pc = "thrown" /\ call'[p].thrown.category = "raw")

\* C32: lastRequestAt of an account holds the time of the most recent
\* transport attempt made for it, whatever that attempt ended in: once an
\* attempt has been settled, the account's lastRequestAt is the present
\* instant.
C32_LastRequestAtEveryAttempt ==
  [][\A p \in Calls :
       AttemptEnds(p) =>
         /\ call[p].accountId \in DOMAIN accountStates'
         /\ accountStates'[call[p].accountId].lastRequestAt = now]_vars

\* C33: with retry enabled, a call that finds shouldWait positive at entry
\* sleeps once for that duration and then invokes the transport without
\* calling shouldWait again: whatever is recorded for its account while it
\* sleeps, it leaves the sleep as soon as its own wake time is reached, for
\* its first attempt, and the rate limiter is not touched by its waking.
C33_EntryWaitOnce ==
  [][\A p \in Calls :
       /\ call[p].pc = "idle" /\ call'[p].pc # "idle"
            /\ ShouldWaitRet(accountStates, call'[p].accountId, now) > 0 =>
            /\ call'[p].pc = "preWait"
            /\ call'[p].sleeps = 1 /\ call'[p].invocations = 0
            /\ call'[p].sleepMs = ShouldWaitRet(accountStates, call'[p].accountId, now)
            /\ call'[p].wakeAt = now + call'[p].sleepMs
       /\ call[p].pc = "preWait" /\ now >= call[p].wakeAt => ENABLED WakePreWait(p)
       /\ call[p].pc = "preWait" /\ call'[p] # call[p] =>
            /\ now >= call[p].wakeAt
            /\ call'[p].pc = "inflight"
            /\ call'[p].attempt = 1 /\ call'[p].invocations = 1
            /\ call'[p].sleeps = 1 /\ call'[p].wakeAt = call[p].wakeAt
            /\ accountStates' = accountStates]_vars

\* c1 slept once before its first attempt, which is now in flight although
\* the other call's 429 was recorded meanwhile and shouldWait for the
\* account is positive again
C33_Witness ==
  /\ call["c1"].pc = "inflight" /\ call["c1"].attempt = 1
  /\ call["c1"].sleeps = 1 /\ call["c1"].wakeAt = now
  /\ call["c2"].pc = "backoff" /\ call["c2"].lastError.category = "rate_limit"
  /\ accountStates["acc-1"].lastRequestAt > call["c1"].wakeAt - call["c1"].sleepMs
  /\ accountStates["acc-1"].lastRequestAt < call["c1"].wakeAt
  /\ ShouldWaitRet(accountStates, "acc-1", now) > 0

\* C34: with retry enabled, on a bucket with no earlier errors and no other
\* call, the wait after the k-th 429 without rate-limit headers within one
\* call is min(baseDelay x 2^k, maxDelay): the recording doubles the backoff
\* before it is read, so the first such wait is 2 x baseDelay (capped).
C34_HeaderlessBackoff ==
  [][LET c == call["c1"]
         e == call'["c1"].lastError
         a == c.accountId
         k == applied'[a].errors
     IN c.pc = "inflight" /\ call'["c1"].pc = "backoff"
          /\ e.category = "rate_limit" /\ e.resetAt = Null =>
          /\ k = applied[a].errors + 1
          /\ applied'[a].doublings = k
          /\ accountStates'[a].consecutiveErrors = k
          /\ call'["c1"].sleepMs = Min(baseDelayMs * 2 ^ k, maxDelayMs)
          /\ k = 1 => call'["c1"].sleepMs = Min(2 * baseDelayMs, maxDelayMs)]_vars

\* after 500, 429, 429 and 429 on a limiter with base delay 1000 and
\* maximum 10000 the call waits 8000 ms: three 429s, fourth attempt
C34_Witness ==
  /\ call["c1"].pc = "backoff" /\ call["c1"].attempt = 4
  /\ call["c1"].lastError.category = "rate_limit"
  /\ call["c1"].lastError.resetAt = Null
  /\ baseDelayMs = 1000 /\ maxDelayMs = 10000
  /\ accountStates[call["c1"].accountId].consecutiveErrors = 3
  /\ call["c1"].sleepMs = 8000

\* C35: with retry enabled, when an attempt that is not the last receives a
\* 429 whose reset time is not in the future (Retry-After: 0), the error is
\* recorded with that reset time, so currentBackoffMs is not doubled, and the
\* call sleeps the bucket's currentBackoffMs, baseDelay for a bucket with no
\* header-less 429 before, and not zero time.
C35_PassedResetWaitsBackoff ==
  [][LET c == call["c1"]
         e == call'["c1"].lastError
         a == c.accountId
         before == GetCurrentBackoffRet(accountStates, a)
     IN c.pc = "inflight" /\ call'["c1"].pc \notin {"inflight", "returned"}
          /\ e.typed /\ e.statusCode = 429 /\ e.resetAt # Null /\ e.resetAt <= now
          /\ enableRetry /\ c.attempt < maxRetries =>
          /\ accountStates'[a].resetAt = e.resetAt
          /\ accountStates'[a].consecutiveErrors =
               GetConsecutiveErrorsRet(accountStates, a) + 1
          /\ accountStates'[a].currentBackoffMs = before
          /\ call'["c1"].pc = "backoff"
          /\ call'["c1"].sleepMs = before
          /\ call'["c1"].sleepMs > 0
          /\ call'["c1"].wakeAt = now + before
          /\ applied[a].doublings = 0 => call'["c1"].sleepMs = baseDelayMs]_vars

\* the first attempt got 429 with Retry-After: 0 on a fresh bucket: the
\* reset time stored is the present instant and the call sleeps baseDelay
C35_Witness ==
  /\ call["c1"].pc = "backoff" /\ call["c1"].attempt = 1
  /\ call["c1"].lastError.statusCode = 429
  /\ call["c1"].lastError.resetAt = now
  /\ accountStates[call["c1"].accountId].resetAt = now
  /\ accountStates[call["c1"].accountId].consecutiveErrors = 1
  /\ accountStates[call["c1"].accountId].currentBackoffMs = baseDelayMs
  /\ call["c1"].sleepMs = baseDelayMs
  /\ call["c1"].wakeAt = now + baseDelayMs

\* the categories of errors that are no rate limit
OtherCategories == {"timeout", "connection", "unknown", "auth", "validation", "not_found"}

\* C36: an attempt that ends in a timeout, connection, unknown, auth,
\* validation or not_found error leaves the rate-limiter state of every
\* account as it is; a step of request() changes the state only when an
\* attempt succeeds (recordSuccess), when an attempt that is not the last
\* fails with rate_limit (recordRateLimitError), or at entry, where the
\* check creates the account's entry or clears a reset time that has passed.
C36_OtherErrorsWriteNothing ==
  [][LET c == call["c1"]
         d == call'["c1"]
         e == d.lastError
     IN /\ AttemptEnds("c1") /\ d.pc # "returned" /\ e.category \in OtherCategories =>
             accountStates' = accountStates
        /\ d # c /\ accountStates' # accountStates =>
             \/ /\ c.pc = "idle"
                /\ accountStates' = ShouldWaitPost(accountStates, d.accountId, now)
             \/ /\ c.pc = "inflight" /\ d.pc = "returned"
                /\ accountStates' = RecordSuccessPost(accountStates, c.accountId, now)
             \/ /\ c.pc = "inflight" /\ d.pc = "backoff"
                /\ e.category = "rate_limit" /\ c.attempt < MaxAttempts
                /\ accountStates' =
                     RecordRateLimitErrorPost(accountStates, c.accountId, e.resetAt, now)]_vars

\* the second attempt ended in an auth error and the call has thrown it; the
\* bucket still shows the one 429 recorded after the first attempt
C36_Witness ==
  /\ call["c1"].pc = "thrown" /\ call["c1"].attempt = 2
  /\ call["c1"].thrown.category = "auth" /\ call["c1"].thrown.statusCode = 401
  /\ accountStates[call["c1"].accountId].consecutiveErrors = 1
  /\ accountStates[call["c1"].accountId].lastRequestAt < now

\* C37: a rate_limit error on the last allowed attempt of a call, the only
\* attempt when retry is disabled, is thrown without recordRateLimitError
\* being called: a call that gets 429 on each of its N allowed attempts has
\* raised the bucket's consecutiveErrors by N - 1 when it throws, by 0 when
\* retry is disabled, and with retry disabled no 429 ever makes shouldWait
\* positive, so a later call goes straight to the transport.
C37_LastRateLimitNotRecorded ==
  [][/\ \A p \in Calls :
          LET c == call[p]
              d == call'[p]
          IN /\ c.pc = "inflight" /\ d.pc = "thrown" =>
                  /\ d.thrown.category = "rate_limit" /\ d.thrown.statusCode = 429
                  /\ c.attempt = MaxAttempts
                  /\ accountStates' = accountStates
             /\ c.pc = "inflight" /\ d.pc = "backoff" => c.attempt < MaxAttempts
             /\ c.pc = "idle" /\ d.pc # "idle" /\ ~enableRetry =>
                  d.pc = "inflight" /\ d.sleeps = 0
     /\ LET d == call'["c1"]
        IN d.pc = "thrown" /\ d.thrown.category = "rate_limit"
             /\ call'["c2"].pc = "idle" =>
             /\ d.invocations = MaxAttempts
             /\ accountStates'[d.accountId].consecutiveErrors = MaxAttempts - 1
     /\ ~enableRetry =>
          \A a \in Accounts :
            /\ GetConsecutiveErrorsRet(accountStates', a) = 0
            /\ ShouldWaitRet(accountStates', a, now') = 0]_vars

\* three allowed attempts were all answered with 429 and the call has
\* thrown the third: consecutiveErrors is 2
C37_Witness ==
  /\ enableRetry /\ maxRetries = 3
  /\ call["c1"].pc = "thrown" /\ call["c1"].attempt = 3
  /\ call["c1"].invocations = 3
  /\ call["c1"].thrown.statusCode = 429
  /\ accountStates["acc-1"].consecutiveErrors = 2
  /\ call["c2"].pc = "idle"

\* call p has left request() through the throw after the attempt loop
FellThrough(c) == c.pc = "thrown" /\ c.attempt > MaxAttempts

\* C38: the throw after the attempt loop of request() is reached only when
\* retry is enabled and maxRetries < 1; the call then has made no transport
\* invocation, records nothing in the rate limiter and throws the generic
\* unknown error, which is not retryable.  When at least one attempt is
\* allowed, every call ends with a return or a throw from inside the loop or
\* from the rate-limit check at entry.
C38_FallbackOnlyWithoutAttempts ==
  [][LET c == call["c1"]
         d == call'["c1"]
     IN /\ FellThrough(d) =>
             /\ enableRetry /\ maxRetries < 1
             /\ d.invocations = 0
             /\ d.lastError = NoError
             /\ d.thrown = FallbackError
             /\ d.thrown.category = "unknown" /\ ~d.thrown.isRetryable
        /\ FellThrough(d) /\ ~FellThrough(c) =>
             /\ applied' = applied
             /\ accountStates' =
                  IF c.pc = "idle" THEN ShouldWaitPost(accountStates, d.accountId, now)
                  ELSE accountStates
        /\ MaxAttempts >= 1 /\ d.pc \in {"thrown", "returned"} =>
             /\ d.attempt <= MaxAttempts
             /\ d.thrown # FallbackError
             /\ d.attempt = 0 => ~enableRetry /\ d.thrown.category = "rate_limit"
        /\ MaxAttempts < 1 /\ d.pc # "idle" =>
             d.pc \in {"preWait", "thrown"} /\ d.invocations = 0]_vars

\* with retry enabled and maxRetries = 0 the call, after its wait at entry,
\* has thrown the generic error without invoking the transport
C38_Witness ==
  /\ enableRetry /\ maxRetries = 0
  /\ call["c1"].pc = "thrown" /\ call["c1"].thrown = FallbackError
  /\ call["c1"].sleeps = 1 /\ call["c1"].invocations = 0
  /\ accountStates[call["c1"].accountId].consecutiveErrors = 1

\* call p has returned an envelope or thrown
Ended(p) == call[p].pc \in {"returned", "thrown"}

\* C39: every call of request() ends: when each transport attempt is
\* settled and each timed wait elapses, a call that has been made eventually
\* returns or throws, whatever the other call does, having waited at most
\* once before its first attempt, invoked the transport at most maxAttempts
\* times and waited at most maxAttempts - 1 times between attempts.
C39_EveryCallEnds ==
  /\ [](\A p \in Calls :
          LET c == call[p]
          IN /\ c.invocations <= Max(MaxAttempts, 0)
             /\ c.attempt <= Max(MaxAttempts, 0) + 1
             /\ c.sleeps <= 1 + Max(MaxAttempts - 1, 0)
             /\ c.pc = "preWait" => c.sleeps = 1 /\ c.attempt = 0
             /\ c.pc = "backoff" =>
                  c.attempt <= MaxAttempts - 1 /\ c.sleeps <= c.attempt + 1
             /\ c.sleeps > Max(MaxAttempts - 1, 0) => c.sleeps - c.invocations <= 1)
  /\ \A p \in Calls : (call[p].pc # "idle") ~> Ended(p)

\* with two attempts allowed, c1 has returned after a wait at entry and one
\* wait between its two attempts, and c2 has thrown
C39_Witness ==
  /\ enableRetry /\ maxRetries = 2
  /\ call["c1"].pc = "returned"
  /\ call["c1"].invocations = 2 /\ call["c1"].sleeps = 2
  /\ call["c2"].pc = "thrown"

====
